---- MODULE Spec2Model ----
(***************************************************************************)
(* Model of the rustyglot opening-book engine: the book graph (BookMap),   *)
(* its insert/merge/filter/map primitives, the tree walk, the binary codec *)
(* and the text reader.                                                    *)
(*                                                                         *)
(* Machine integers keep their number of bytes; a byte is ByteBits wide,   *)
(* so u16 has 2*ByteBits bits, u32 4*ByteBits and u64 8*ByteBits.  Every   *)
(* width-dependent constant of the source (u16::MAX, u64 wrap-around) is   *)
(* derived from ByteBits.                                                   *)
(***************************************************************************)
EXTENDS Integers, Sequences, FiniteSets, TLC

VARIABLES
    map,      \* BookMap.map of the working book: hash -> entry list
    root,     \* BookMap.root of the working book
    book2,    \* the BookMap a tree reader returned: [map, root]
    file,     \* the bytes of the binary book file
    written,  \* history: the book `file` was written from
    last,     \* history: the last operation, its arguments and the map before
    status,   \* "ok", "panic" (the process aborted) or "hang" (walk running)
    steps,    \* number of operations performed
    walk      \* the traverse_tree call in progress: [mode, iter, st]

vars == <<map, root, book2, file, written, last, status, steps, walk>>

----------------------------------------------------------------------------
(* Bounds *)

ByteBits == 2
MaxSteps == 3
MaxWalkSteps == 40

----------------------------------------------------------------------------
(* Machine integers *)

Pow2(n) == 2 ^ n

ByteMod == Pow2(ByteBits)

U16_MOD == Pow2(2 * ByteBits)

U16_MAX == U16_MOD - 1

U32_MOD == Pow2(4 * ByteBits)

U64_MOD == Pow2(8 * ByteBits)

U64_MAX == U64_MOD - 1

\* u64 `+=` : the wrapped value (release build) and whether it overflowed
\* (a debug build panics on overflow instead of wrapping).
AddU64(a, b) == (a + b) % U64_MOD

AddOverflows(a, b) == a + b >= U64_MOD

MulU64(a, b) == (a * b) % U64_MOD

MulOverflows(a, b) == a * b >= U64_MOD

\* x.to_be_bytes() of an n-byte integer
RECURSIVE to_be_bytes(_, _)
to_be_bytes(x, n) ==
    IF n = 0 THEN <<>>
    ELSE Append(to_be_bytes(x \div ByteMod, n - 1), x % ByteMod)

RECURSIVE from_be_bytes(_)
from_be_bytes(bytes) ==
    IF Len(bytes) = 0 THEN 0
    ELSE from_be_bytes(SubSeq(bytes, 1, Len(bytes) - 1)) * ByteMod
         + bytes[Len(bytes)]

----------------------------------------------------------------------------
(* The external position/move engine, as a small table of positions.       *)
(* Positions are numbered; moves are packed move codes.                     *)

StartPos == 1

\* packed move codes (from/to squares)
e2e4 == 1
e7e5 == 2
c7c5 == 3
g1f3 == 4
g8f6 == 5
f3g1 == 6
f6g8 == 7

\* <<position, move>> -> position after the move.
\*  1 start            2 1.e4            3 1.e4 e5         4 1.e4 c5
\*  5 1.Nf3            6 1.Nf3 Nf6       7 1.Nf3 Nf6 2.Ng1 (2...Ng8 = start)
\*  8 1.Nf3 e5         9 1.e4 e5 2.Nf3 = 1.Nf3 e5 2.e4
\* 10 1.Nf3 Nf6 2.e4  11 1.Nf3 Nf6 2.e4 Ng8 (3.Ng1 = position 2)
PlayTable ==
    ( <<1, e2e4>> :> 2 ) @@ ( <<2, e7e5>> :> 3 ) @@ ( <<2, c7c5>> :> 4 ) @@
    ( <<1, g1f3>> :> 5 ) @@ ( <<5, g8f6>> :> 6 ) @@ ( <<6, f3g1>> :> 7 ) @@
    ( <<7, f6g8>> :> 1 ) @@ ( <<5, e7e5>> :> 8 ) @@ ( <<3, g1f3>> :> 9 ) @@
    ( <<8, e2e4>> :> 9 ) @@ ( <<6, e2e4>> :> 10 ) @@ ( <<10, f6g8>> :> 11 ) @@
    ( <<11, f3g1>> :> 2 )

Positions == 1..11

\* from_book_move(mov).to_move(&pos) is Some
Legal(pos, mov) == <<pos, mov>> \in DOMAIN PlayTable

play(pos, mov) == PlayTable[<<pos, mov>>]

HashTable == <<70, 21, 52, 13, 34, 65, 46, 27, 18, 39, 50>>

book_hash(pos) == HashTable[pos]

START_HASH == book_hash(StartPos)

PosOfHash(h) == CHOOSE p \in Positions : book_hash(p) = h

----------------------------------------------------------------------------
(* BookEntry *)

\* Option<usize>::None; orders below every Some(d) as in the derived Ord
None == -1

BookEntry(mov, depth, weight, learn) ==
    [mov |-> mov, depth |-> depth, weight |-> weight, learn |-> learn]

\* BookEntry::merge: the entry after the call (self.weight += other.weight)
BookEntry_merge(self, other) ==
    IF self.mov # other.mov THEN self
    ELSE [self EXCEPT !.weight = AddU64(self.weight, other.weight)]

\* derived Ord on BookEntry: lexicographic on (mov, depth, weight, learn)
EntryLess(a, b) ==
    \/ a.mov < b.mov
    \/ a.mov = b.mov /\ a.depth < b.depth
    \/ a.mov = b.mov /\ a.depth = b.depth /\ a.weight < b.weight
    \/ a.mov = b.mov /\ a.depth = b.depth /\ a.weight = b.weight
       /\ a.learn < b.learn

\* to_bytes with the weight field in little-endian byte order
to_bytes_weight_le(e) ==
    to_be_bytes(e.mov, 2)
    \o <<(e.weight % U16_MOD) % ByteMod, (e.weight % U16_MOD) \div ByteMod>>
    \o to_be_bytes(e.learn, 4)

to_bytes(e) ==
    to_be_bytes(e.mov, 2) \o to_be_bytes(e.weight % U16_MOD, 2)
    \o to_be_bytes(e.learn, 4)

from_bytes(bytes) ==
    BookEntry(from_be_bytes(SubSeq(bytes, 1, 2)), None,
              from_be_bytes(SubSeq(bytes, 3, 4)),
              from_be_bytes(SubSeq(bytes, 5, 8)))

----------------------------------------------------------------------------
(* BookMap: map is a function from the hashes present to entry lists *)

EmptyMap == << >>

Has(m, h) == h \in DOMAIN m

Put(m, h, v) == [x \in DOMAIN m \cup {h} |-> IF x = h THEN v ELSE m[x]]

Remove(m, h) == [x \in DOMAIN m \ {h} |-> m[x]]

\* index of the first entry of v with the move, 0 if none
FirstWithMove(v, mov) ==
    IF \E i \in 1..Len(v) : v[i].mov = mov
    THEN CHOOSE i \in 1..Len(v) :
            /\ v[i].mov = mov
            /\ \A j \in 1..(i - 1) : v[j].mov # mov
    ELSE 0

\* insert that pushes the entry without looking for its move in the node
insert_push(m, h, entry) ==
    IF Has(m, h) THEN Put(m, h, Append(m[h], entry)) ELSE Put(m, h, <<entry>>)

insert(m, h, entry) ==
    IF Has(m, h)
    THEN LET v == m[h]
             i == FirstWithMove(v, entry.mov)
         IN  IF i # 0
             THEN Put(m, h, [v EXCEPT ![i] = BookEntry_merge(v[i], entry)])
             ELSE Put(m, h, Append(v, entry))
    ELSE Put(m, h, <<entry>>)

\* the `+=` of insert overflows u64
insert_overflows(m, h, entry) ==
    /\ Has(m, h)
    /\ FirstWithMove(m[h], entry.mov) # 0
    /\ AddOverflows(m[h][FirstWithMove(m[h], entry.mov)].weight, entry.weight)

\* insert_no_merge that merges into the entry with the same move
insert_no_merge_summing(m, h, entry) == insert(m, h, entry)

insert_no_merge(m, h, entry) ==
    IF Has(m, h)
    THEN IF FirstWithMove(m[h], entry.mov) # 0
         THEN m
         ELSE Put(m, h, Append(m[h], entry))
    ELSE Put(m, h, <<entry>>)

\* inserting the entries of one list, in list order
RECURSIVE insert_all(_, _, _)
insert_all(m, h, v) ==
    IF Len(v) = 0 THEN m
    ELSE insert_all(insert(m, h, Head(v)), h, Tail(v))

RECURSIVE insert_all_overflows(_, _, _)
insert_all_overflows(m, h, v) ==
    IF Len(v) = 0 THEN FALSE
    ELSE \/ insert_overflows(m, h, Head(v))
         \/ insert_all_overflows(insert(m, h, Head(v)), h, Tail(v))

\* BookMap::merge, visiting other's nodes in the order `order`
RECURSIVE merge(_, _, _)
merge(m, other, order) ==
    IF Len(order) = 0 THEN m
    ELSE merge(insert_all(m, Head(order), other[Head(order)]), other,
               Tail(order))

RECURSIVE merge_overflows(_, _, _)
merge_overflows(m, other, order) ==
    IF Len(order) = 0 THEN FALSE
    ELSE \/ insert_all_overflows(m, Head(order), other[Head(order)])
         \/ merge_overflows(insert_all(m, Head(order), other[Head(order)]),
                            other, Tail(order))

\* the iteration orders a HashMap with key set S can produce
Orders(S) ==
    {o \in [1..Cardinality(S) -> S] : \A i, j \in DOMAIN o : i # j => o[i] # o[j]}

----------------------------------------------------------------------------
(* map_nodes / map_entries / filter *)

\* The closures the callers pass are data here: [kind, n].
Closure(kind, n) == [kind |-> kind, n |-> n]

\* the predicates passed to filter: by modify_book (-min-weight, -max-weight,
\* -depth, -white-only, -black-only) and by remove_disconnected
call_pred(p, entry) ==
    CASE p.kind = "min-weight" -> entry.weight >= p.n
      [] p.kind = "max-weight" -> entry.weight <= p.n
      [] p.kind = "depth"      ->
            (IF entry.depth = None THEN 0 ELSE entry.depth) < p.n
      [] p.kind = "white-only" ->
            (IF entry.depth = None THEN 1 ELSE entry.depth) % 2 = 0
      [] p.kind = "black-only" ->
            (IF entry.depth = None THEN 0 ELSE entry.depth) % 2 = 1
      [] p.kind = "has-depth"  -> entry.depth # None

\* the closures passed to map_entries: -clear-learning, -uniform, and the
\* depth reset of set_depths
call_entry_fn(f, entry) ==
    CASE f.kind = "clear-learning" -> [entry EXCEPT !.learn = 0]
      [] f.kind = "uniform"        -> [entry EXCEPT !.weight = 1]
      [] f.kind = "clear-depth"    -> [entry EXCEPT !.depth = None]

\* Vec::retain
retain(v, p) == SelectSeq(v, LAMBDA x : call_pred(p, x))

map_entries(m, f) ==
    [h \in DOMAIN m |-> [i \in 1..Len(m[h]) |-> call_entry_fn(f, m[h][i])]]

\* filter without the `!vec.is_empty()` of the outer retain
filter_keep_empty(m, p) == [h \in DOMAIN m |-> retain(m[h], p)]

filter(m, p) ==
    [h \in {x \in DOMAIN m : Len(retain(m[x], p)) # 0} |-> retain(m[h], p)]

\* Vec::truncate
truncate(v, n) == IF Len(v) > n THEN SubSeq(v, 1, n) ELSE v

\* a sort key that orders by ascending weight whatever the option
SortKey_ascending(kind, x) == x.weight

\* the sort keys of -keep-best (u64::MAX - x.weight) and -keep-worst
SortKey(kind, x) == IF kind = "best" THEN U64_MAX - x.weight ELSE x.weight

\* stable insertion of x into a list sorted by key: after every element
\* whose key is <= the key of x
RECURSIVE InsertByKey(_, _, _)
InsertByKey(sorted, x, kind) ==
    IF Len(sorted) = 0 THEN <<x>>
    ELSE IF SortKey(kind, Head(sorted)) <= SortKey(kind, x)
         THEN <<Head(sorted)>> \o InsertByKey(Tail(sorted), x, kind)
         ELSE <<x>> \o sorted

\* slice::sort_by_key (a stable sort)
RECURSIVE sort_by_key(_, _)
sort_by_key(v, kind) ==
    IF Len(v) = 0 THEN <<>>
    ELSE InsertByKey(sort_by_key(SubSeq(v, 1, Len(v) - 1), kind),
                     v[Len(v)], kind)

\* the closures passed to map_nodes: -keep-best N and -keep-worst N
call_node_fn(f, node) ==
    CASE f.kind = "keep-best"  -> truncate(sort_by_key(node, "best"), f.n)
      [] f.kind = "keep-worst" -> truncate(sort_by_key(node, "worst"), f.n)

map_nodes(m, f) ==
    [h \in {x \in DOMAIN m : Len(call_node_fn(f, m[x])) # 0} |->
        call_node_fn(f, m[h])]

----------------------------------------------------------------------------
(* The tree walk *)

Frame(pos, ind) == [pos |-> pos, ind |-> ind]

WalkInit(m, r) ==
    [stack |-> <<Frame(r, 0)>>, map |-> m, log |-> <<>>, panic |-> FALSE]

\* a set_depths visitor that writes the depth of the first visit only
Visit_keep_first(mode, depth, pos, entries, ind) ==
    IF mode = "set_depths" /\ entries[ind + 1].depth = None
    THEN [entries EXCEPT ![ind + 1].depth = depth]
    ELSE entries

\* the visitor callbacks: the entry list after f(depth, pos, entries, ind)
Visit(mode, depth, pos, entries, ind) ==
    IF mode = "set_depths"
    THEN [entries EXCEPT ![ind + 1].depth = depth]
    ELSE entries

\* the loop iteration with the visitor's depth taken as the stack length
\* before the pop
traverse_step_depth_before_pop(st, mode) ==
    LET n       == Len(st.stack)
        frame   == st.stack[n]
        rest    == SubSeq(st.stack, 1, n - 1)
        pos     == frame.pos
        ind     == frame.ind
        hash    == book_hash(pos)
    IN  IF ~Has(st.map, hash) THEN [st EXCEPT !.stack = rest]
        ELSE
        LET before  == st.map[hash]
            entries == IF ind < Len(before)
                       THEN Visit(mode, n, pos, before, ind)
                       ELSE before
            log     == IF ind < Len(before)
                       THEN Append(st.log, [depth |-> n, hash |-> hash,
                                            pos |-> pos, ind |-> ind,
                                            mov |-> entries[ind + 1].mov])
                       ELSE st.log
        IN  IF ind < Len(entries)
            THEN IF ~Legal(pos, entries[ind + 1].mov)
                 THEN [stack |-> rest, map |-> Put(st.map, hash, entries),
                       log |-> log, panic |-> TRUE]
                 ELSE [stack |-> rest \o <<Frame(pos, ind + 1),
                                  Frame(play(pos, entries[ind + 1].mov), 0)>>,
                       map |-> Put(st.map, hash, entries),
                       log |-> log, panic |-> FALSE]
            ELSE IF Len(entries) = 0
                 THEN [st EXCEPT !.stack = rest, !.map = Remove(st.map, hash)]
                 ELSE [st EXCEPT !.stack = rest]

\* one iteration of the `while let Some((pos, ind)) = stack.pop()` loop
traverse_step(st, mode) ==
    LET n       == Len(st.stack)
        frame   == st.stack[n]
        rest    == SubSeq(st.stack, 1, n - 1)
        pos     == frame.pos
        ind     == frame.ind
        hash    == book_hash(pos)
    IN  IF ~Has(st.map, hash) THEN [st EXCEPT !.stack = rest]
        ELSE
        LET before  == st.map[hash]
            entries == IF ind < Len(before)
                       THEN Visit(mode, Len(rest), pos, before, ind)
                       ELSE before
            log     == IF ind < Len(before)
                       THEN Append(st.log, [depth |-> Len(rest), hash |-> hash,
                                            pos |-> pos, ind |-> ind,
                                            mov |-> entries[ind + 1].mov])
                       ELSE st.log
        IN  IF ind < Len(entries)
            THEN IF ~Legal(pos, entries[ind + 1].mov)
                 THEN [stack |-> rest, map |-> Put(st.map, hash, entries),
                       log |-> log, panic |-> TRUE]
                 ELSE [stack |-> rest \o <<Frame(pos, ind + 1),
                                  Frame(play(pos, entries[ind + 1].mov), 0)>>,
                       map |-> Put(st.map, hash, entries),
                       log |-> log, panic |-> FALSE]
            ELSE IF Len(entries) = 0
                 THEN [st EXCEPT !.stack = rest, !.map = Remove(st.map, hash)]
                 ELSE [st EXCEPT !.stack = rest]

\* traverse_tree, run for at most `fuel` iterations
RECURSIVE traverse_tree(_, _, _)
traverse_tree(st, mode, fuel) ==
    IF Len(st.stack) = 0 \/ st.panic \/ fuel = 0 THEN st
    ELSE traverse_tree(traverse_step(st, mode), mode, fuel - 1)

\* the walk returned
Returned(st) == Len(st.stack) = 0 /\ ~st.panic

\* set_depths without the map_entries call that resets every depth
set_depths_no_reset(m, r) ==
    traverse_tree(WalkInit(m, r), "set_depths", MaxWalkSteps)

\* set_depths: the final walk state
set_depths(m, r) ==
    traverse_tree(WalkInit(map_entries(m, Closure("clear-depth", 0)), r),
                  "set_depths",
                  MaxWalkSteps)

\* remove_disconnected, given the walk state set_depths returned with
remove_disconnected(st) == filter(st.map, Closure("has-depth", 0))

----------------------------------------------------------------------------
(* Binary codec *)

Max(S) == CHOOSE x \in S : \A y \in S : y <= x

Min(S) == CHOOSE x \in S : \A y \in S : x <= y

\* the keys of a set in ascending order (vec.sort_unstable() on (hash, _))
RECURSIVE Ascending(_)
Ascending(S) ==
    IF S = {} THEN <<>> ELSE <<Min(S)>> \o Ascending(S \ {Min(S)})

RECURSIVE InsertSorted(_, _)
InsertSorted(sorted, x) ==
    IF Len(sorted) = 0 THEN <<x>>
    ELSE IF EntryLess(x, Head(sorted))
         THEN <<x>> \o sorted
         ELSE <<Head(sorted)>> \o InsertSorted(Tail(sorted), x)

\* entries.sort_unstable() under the derived Ord
RECURSIVE sort_unstable(_)
sort_unstable(v) ==
    IF Len(v) = 0 THEN <<>>
    ELSE InsertSorted(sort_unstable(Tail(v)), Head(v))

max_weight(entries) == Max({entries[i].weight : i \in 1..Len(entries)})

\* the (hash, entry) pairs write() visits, in order, each with the
\* max_weight of its node; none marks max() of an empty node
NodeRecords(h, entries) ==
    IF Len(entries) = 0
    THEN <<[hash |-> h, none |-> TRUE, max |-> 0, entry |-> BookEntry(0, None, 0, 0)]>>
    ELSE [i \in 1..Len(entries) |->
            [hash |-> h, none |-> FALSE, max |-> max_weight(entries),
             entry |-> entries[i]]]

RECURSIVE WriteRecords(_, _)
WriteRecords(m, hashes) ==
    IF Len(hashes) = 0 THEN <<>>
    ELSE NodeRecords(Head(hashes), sort_unstable(m[Head(hashes)]))
         \o WriteRecords(m, Tail(hashes))

\* the weight of a record after the `if max_weight > U16_MAX` rescaling
scaled_weight(rec) ==
    IF rec.max > U16_MAX
    THEN MulU64(rec.entry.weight, U16_MAX) \div rec.max
    ELSE rec.entry.weight

scale_overflows(rec) ==
    rec.max > U16_MAX /\ MulOverflows(rec.entry.weight, U16_MAX)

record_bytes(rec) ==
    to_be_bytes(rec.hash, 8)
    \o to_bytes([rec.entry EXCEPT !.weight = scaled_weight(rec)])

\* the loop of write(): bytes written, and whether it panicked; `checked`
\* is the overflow-checking (debug) build
RECURSIVE write_loop(_, _, _)
write_loop(recs, checked, bytes) ==
    IF Len(recs) = 0 THEN [bytes |-> bytes, panic |-> FALSE]
    ELSE IF Head(recs).none \/ (checked /\ scale_overflows(Head(recs)))
         THEN [bytes |-> bytes, panic |-> TRUE]
         ELSE write_loop(Tail(recs), checked,
                         bytes \o record_bytes(Head(recs)))

write(m, checked) ==
    write_loop(WriteRecords(m, Ascending(DOMAIN m)), checked, <<>>)

write_overflows(m) ==
    LET recs == WriteRecords(m, Ascending(DOMAIN m))
    IN  \E i \in 1..Len(recs) : scale_overflows(recs[i])

RecordLen == 16

\* extend_from_reader that also takes a final short read as a record, the
\* bytes missing from it left at the zeros of `buf`
RECURSIVE extend_from_reader_short_read(_, _)
extend_from_reader_short_read(m, bytes) ==
    IF Len(bytes) = 0 THEN m
    ELSE IF Len(bytes) < RecordLen
    THEN extend_from_reader_short_read(
            m, bytes \o [i \in 1..(RecordLen - Len(bytes)) |-> 0])
    ELSE extend_from_reader_short_read(
            insert(m, from_be_bytes(SubSeq(bytes, 1, 8)),
                   from_bytes(SubSeq(bytes, 9, RecordLen))),
            SubSeq(bytes, RecordLen + 1, Len(bytes)))

\* extend_from_reader: read_exact 16 bytes until it fails
RECURSIVE extend_from_reader(_, _)
extend_from_reader(m, bytes) ==
    IF Len(bytes) < RecordLen THEN m
    ELSE extend_from_reader(
            insert(m, from_be_bytes(SubSeq(bytes, 1, 8)),
                   from_bytes(SubSeq(bytes, 9, RecordLen))),
            SubSeq(bytes, RecordLen + 1, Len(bytes)))

RECURSIVE extend_overflows(_, _)
extend_overflows(m, bytes) ==
    IF Len(bytes) < RecordLen THEN FALSE
    ELSE \/ insert_overflows(m, from_be_bytes(SubSeq(bytes, 1, 8)),
                             from_bytes(SubSeq(bytes, 9, RecordLen)))
         \/ extend_overflows(
                insert(m, from_be_bytes(SubSeq(bytes, 1, 8)),
                       from_bytes(SubSeq(bytes, 9, RecordLen))),
                SubSeq(bytes, RecordLen + 1, Len(bytes)))

----------------------------------------------------------------------------
(* PGN ingestion *)

\* san.to_move(&pos) followed by to_book_move(Uci::from_chess960(..)):
\* the packed move a SAN token denotes
SanMove(san) ==
    CASE san = "e4"  -> e2e4
      [] san = "e5"  -> e7e5
      [] san = "c5"  -> c7c5
      [] san = "Nf3" -> g1f3
      [] san = "Nf6" -> g8f6
      [] san = "Ng1" -> f3g1
      [] san = "Ng8" -> f6g8

PgnGame(moves, outcome) == [moves |-> moves, outcome |-> outcome]

\* game_weight with the side to move taken from the wrong parity
game_weight_flipped(game, frequency, depth) ==
    IF frequency THEN 1
    ELSE IF game.outcome \in {"white", "black"}
         THEN IF (game.outcome = "white") = (depth % 2 = 1) THEN 2 ELSE 0
         ELSE 1

\* the weight add_game gives the move at ply `depth`
game_weight(game, frequency, depth) ==
    IF frequency THEN 1
    ELSE IF game.outcome \in {"white", "black"}
         THEN IF (game.outcome = "white") = (depth % 2 = 0) THEN 2 ELSE 0
         ELSE 1

\* the loop of add_game from ply i on; st = [map, board, panic, ovf]
RECURSIVE add_game_loop(_, _, _, _, _)
add_game_loop(st, game, frequency, depth, i) ==
    IF i >= Len(game.moves) \/ i >= depth \/ st.panic THEN st
    ELSE LET san   == game.moves[i + 1]
             hash  == book_hash(st.board)
             entry == BookEntry(SanMove(san), i,
                                game_weight(game, frequency, i), 0)
         IN  IF ~Legal(st.board, SanMove(san))
             THEN [st EXCEPT !.panic = TRUE]
             ELSE add_game_loop(
                    [map   |-> insert(st.map, hash, entry),
                     board |-> play(st.board, SanMove(san)),
                     panic |-> FALSE,
                     ovf   |-> st.ovf \/ insert_overflows(st.map, hash, entry)],
                    game, frequency, depth, i + 1)

add_game(m, game, frequency, depth) ==
    add_game_loop([map |-> m, board |-> StartPos, panic |-> FALSE,
                   ovf |-> FALSE], game, frequency, depth, 0)

----------------------------------------------------------------------------
(* Text/blob reader.  A line is a sequence of one-character strings. *)

Digits == <<"0", "1", "2", "3", "4", "5", "6", "7", "8", "9">>

is_digit(c) == \E d \in 1..10 : Digits[d] = c

DigitValue(c) == (CHOOSE d \in 1..10 : Digits[d] = c) - 1

is_ascii_alphabetic(c) ==
    c \in {"a", "b", "c", "d", "e", "f", "g", "h", "N", "B", "R", "Q", "K",
           "O", "x"}

is_whitespace(c) == c \in {" ", "\t", "\n"}

\* word.parse::<u64>(): the value, or -1 for Err
RECURSIVE parse_u64(_)
parse_u64(word) ==
    IF Len(word) = 0 \/ ~is_digit(word[Len(word)]) THEN -1
    ELSE IF Len(word) = 1 THEN DigitValue(word[1])
    ELSE LET hi == parse_u64(SubSeq(word, 1, Len(word) - 1))
         IN  IF hi = -1 \/ hi * 10 + DigitValue(word[Len(word)]) >= U64_MOD
             THEN -1
             ELSE hi * 10 + DigitValue(word[Len(word)])

\* word.parse::<SanPlus>(): the SAN token, or "" for Err
parse_san(word) ==
    CASE word = <<"e", "4">>      -> "e4"
      [] word = <<"e", "5">>      -> "e5"
      [] word = <<"c", "5">>      -> "c5"
      [] word = <<"N", "f", "3">> -> "Nf3"
      [] word = <<"N", "f", "6">> -> "Nf6"
      [] word = <<"N", "g", "1">> -> "Ng1"
      [] word = <<"N", "g", "8">> -> "Ng8"
      [] OTHER -> ""

\* number of leading characters the indent loop of process_line consumes
RECURSIVE LeadingBlanks(_)
LeadingBlanks(line) ==
    IF Len(line) = 0 \/ line[1] \notin {" ", "\t"} THEN 0
    ELSE 1 + LeadingBlanks(Tail(line))

RECURSIVE IndentOf(_)
IndentOf(line) ==
    IF Len(line) = 0 \/ line[1] \notin {" ", "\t"} THEN 0
    ELSE (IF line[1] = " " THEN 1 ELSE 4) + IndentOf(Tail(line))

\* line.find(";").unwrap_or(line.len())
FindSemicolon(line) ==
    IF \E i \in 1..Len(line) : line[i] = ";"
    THEN Min({i \in 1..Len(line) : line[i] = ";"}) - 1
    ELSE Len(line)

\* str::trim
RECURSIVE trim(_)
trim(t) ==
    IF Len(t) = 0 THEN t
    ELSE IF is_whitespace(t[1]) THEN trim(Tail(t))
    ELSE IF is_whitespace(t[Len(t)]) THEN trim(SubSeq(t, 1, Len(t) - 1))
    ELSE t

\* process_line: the line rewritten in place, and the indent returned
process_line(line) ==
    [line   |-> Append(trim(SubSeq(line, LeadingBlanks(line) + 1,
                                   FindSemicolon(line))), "\n"),
     indent |-> IndentOf(line)]

Delimiters == {" ", "\n", "\t", ",", "/", "(", ")"}

EntryEnds == {"\n", ",", "/", "(", ")"}

NoSan == ""

\* the reader's state between characters
ReaderInit ==
    [out |-> EmptyMap, out_root |-> StartPos, stack |-> <<>>, pos |-> StartPos,
     paren_indent |-> 0, root |-> TRUE, panic |-> FALSE, illegal |-> FALSE,
     log |-> <<>>,
     weight |-> 1, san |-> NoSan, learn |-> 0, entrystart |-> 0,
     wordstart |-> 0, first_entry |-> TRUE, read_weight |-> TRUE]

\* the pop loop with `indent2 > indent` in place of `indent2 >= indent`
RECURSIVE PopWhile_strict(_, _, _)
PopWhile_strict(stack, pos, indent) ==
    IF Len(stack) = 0 \/ stack[Len(stack)].indent <= indent
    THEN [stack |-> stack, pos |-> pos]
    ELSE PopWhile_strict(SubSeq(stack, 1, Len(stack) - 1),
                         stack[Len(stack)].pos, indent)

\* the `while let Some((_, indent2)) = stack.last()` loop: frames popped
RECURSIVE PopWhile(_, _, _)
PopWhile(stack, pos, indent) ==
    IF Len(stack) = 0 \/ stack[Len(stack)].indent < indent
    THEN [stack |-> stack, pos |-> pos]
    ELSE PopWhile(SubSeq(stack, 1, Len(stack) - 1), stack[Len(stack)].pos,
                  indent)

\* the first `if` of the character loop: a word ends before character i
read_word(st, line, i) ==
    LET c    == line[i + 1]
        word == SubSeq(line, st.wordstart + 1, i)
        n    == parse_u64(word)
        st1  == IF n # -1
                THEN IF st.san = NoSan
                     THEN [st EXCEPT !.weight = n]
                     ELSE [st EXCEPT !.learn = n % U32_MOD]
                ELSE IF parse_san(word) # NoSan
                THEN [st EXCEPT !.san = parse_san(word)]
                ELSE IF Len(word) # 0
                THEN [st EXCEPT !.panic = TRUE]
                ELSE st
    IN  IF c \in Delimiters \/ (~is_digit(c) /\ st.read_weight)
        THEN [st1 EXCEPT
                !.wordstart = IF c \in Delimiters THEN i + 1 ELSE i,
                !.read_weight = IF is_ascii_alphabetic(c) THEN FALSE
                                ELSE st1.read_weight]
        ELSE st

\* the handling of an entry that drops an entry whose move does not apply
\* and reads on
read_entry_skip_illegal(st, line, indent, i) ==
    IF line[i + 1] \in EntryEnds /\ st.entrystart # i
    THEN LET a   == IF st.first_entry
                    THEN PopWhile(st.stack, st.pos, indent)
                    ELSE [stack |-> st.stack, pos |-> st.pos]
             mov == SanMove(st.san)
             entry == BookEntry(mov, Len(a.stack), st.weight, st.learn)
         IN  IF st.san = NoSan
             THEN [st EXCEPT !.panic = TRUE]
             ELSE IF ~Legal(a.pos, SanMove(st.san))
             THEN [st EXCEPT !.illegal = TRUE, !.first_entry = FALSE,
                             !.san = NoSan, !.learn = 0,
                             !.entrystart = i + 1, !.read_weight = TRUE]
             ELSE [st EXCEPT
                     !.out = insert_no_merge(st.out, book_hash(a.pos), entry),
                     !.stack = Append(a.stack, [pos |-> a.pos, indent |-> indent]),
                     !.pos = play(a.pos, mov),
                     !.first_entry = FALSE,
                     !.san = NoSan, !.learn = 0, !.entrystart = i + 1,
                     !.read_weight = TRUE]
    ELSE st

\* the handling of an entry that also puts the weight back to 1 after the
\* entry
read_entry_reset_weight(st, line, indent, i) ==
    IF line[i + 1] \in EntryEnds /\ st.entrystart # i
    THEN LET a   == IF st.first_entry
                    THEN PopWhile(st.stack, st.pos, indent)
                    ELSE [stack |-> st.stack, pos |-> st.pos]
             mov == SanMove(st.san)
             entry == BookEntry(mov, Len(a.stack), st.weight, st.learn)
         IN  IF st.san = NoSan
             THEN [st EXCEPT !.panic = TRUE]
             ELSE IF ~Legal(a.pos, SanMove(st.san))
             THEN [st EXCEPT !.panic = TRUE, !.illegal = TRUE]
             ELSE [st EXCEPT
                     !.out = insert_no_merge(st.out, book_hash(a.pos), entry),
                     !.stack = Append(a.stack, [pos |-> a.pos, indent |-> indent]),
                     !.pos = play(a.pos, mov),
                     !.log = Append(st.log,
                                [first |-> st.first_entry, indent |-> indent,
                                 stack |-> st.stack, cursor |-> st.pos,
                                 pos |-> a.pos, entry |-> entry]),
                     !.first_entry = FALSE,
                     !.san = NoSan, !.learn = 0, !.entrystart = i + 1,
                     !.read_weight = TRUE, !.weight = 1]
    ELSE st

\* the second `if`: an entry ends at character i
read_entry(st, line, indent, i) ==
    IF line[i + 1] \in EntryEnds /\ st.entrystart # i
    THEN LET a   == IF st.first_entry
                    THEN PopWhile(st.stack, st.pos, indent)
                    ELSE [stack |-> st.stack, pos |-> st.pos]
             mov == SanMove(st.san)
             entry == BookEntry(mov, Len(a.stack), st.weight, st.learn)
         IN  IF st.san = NoSan
             THEN [st EXCEPT !.panic = TRUE]
             ELSE IF ~Legal(a.pos, SanMove(st.san))
             THEN [st EXCEPT !.panic = TRUE, !.illegal = TRUE]
             ELSE [st EXCEPT
                     !.out = insert_no_merge(st.out, book_hash(a.pos), entry),
                     !.stack = Append(a.stack, [pos |-> a.pos, indent |-> indent]),
                     !.pos = play(a.pos, mov),
                     !.log = Append(st.log,
                                [first |-> st.first_entry, indent |-> indent,
                                 stack |-> st.stack, cursor |-> st.pos,
                                 pos |-> a.pos, entry |-> entry]),
                     !.first_entry = FALSE,
                     !.san = NoSan, !.learn = 0, !.entrystart = i + 1,
                     !.read_weight = TRUE]
    ELSE st

\* the `match c`; paren_indent is a usize: `-= 4` below 4 panics in a build
\* with overflow checks and wraps otherwise
read_bracket(st, c, checked) ==
    CASE c = "/" -> [st EXCEPT !.first_entry = TRUE, !.weight = 1]
      [] c = "(" -> [st EXCEPT !.paren_indent = (st.paren_indent + 4) % U64_MOD,
                               !.first_entry = TRUE, !.weight = 1]
      [] c = ")" -> IF st.paren_indent < 4 /\ checked
                    THEN [st EXCEPT !.panic = TRUE]
                    ELSE [st EXCEPT
                            !.paren_indent = (st.paren_indent - 4) % U64_MOD,
                            !.first_entry = TRUE, !.weight = 1]
      [] OTHER -> st

\* the loop over the characters of one line, from character i on
RECURSIVE read_chars(_, _, _, _, _)
read_chars(st, line, indent, i, checked) ==
    IF i >= Len(line) \/ st.panic THEN st
    ELSE LET st1 == read_word(st, line, i)
             st2 == IF st1.panic THEN st1 ELSE read_entry(st1, line, indent, i)
             st3 == IF st2.panic THEN st2
                    ELSE read_bracket(st2, line[i + 1], checked)
         IN  read_chars(st3, line, indent, i + 1, checked)

\* one iteration of the loop over the lines.  The lines read here hold
\* moves, never a FEN, so the root line is never taken.
read_line(st, raw, checked) ==
    LET pl     == process_line(raw)
        indent == (pl.indent + st.paren_indent) % U64_MOD
    IN  IF Len(trim(pl.line)) = 0 THEN st
        ELSE read_chars([st EXCEPT !.root = FALSE, !.weight = 1,
                            !.san = NoSan, !.learn = 0, !.entrystart = 0,
                            !.wordstart = 0, !.first_entry = TRUE,
                            !.read_weight = TRUE],
                        pl.line, indent, 0, checked)

\* read_txt over the lines reader.lines() yields
RECURSIVE read_txt_from(_, _, _)
read_txt_from(st, lines, checked) ==
    IF Len(lines) = 0 \/ st.panic THEN st
    ELSE read_txt_from(read_line(st, Head(lines), checked), Tail(lines),
                       checked)

read_txt(lines, checked) == read_txt_from(ReaderInit, lines, checked)

----------------------------------------------------------------------------
(* JSON reader.  The document serde_json parsed is a value                  *)
(* [root, tree]; an object is the sequence of its members in the order      *)
(* iter() yields them, a member is [san, weight, learn, children].          *)

JsonMember(san, weight, learn, children) ==
    [san |-> san, weight |-> weight, learn |-> learn, children |-> children]

JsonFrame(pos, entries, ind) == [pos |-> pos, entries |-> entries, ind |-> ind]

\* one iteration of the `while let Some((pos, entries, ind)) = stack.pop()`
\* loop of read_json
read_json_step(st) ==
    LET n     == Len(st.stack)
        frame == st.stack[n]
        rest  == SubSeq(st.stack, 1, n - 1)
    IN  IF frame.ind >= Len(frame.entries) THEN [st EXCEPT !.stack = rest]
        ELSE
        LET member == frame.entries[frame.ind + 1]
            mov    == SanMove(member.san)
        IN  IF ~Legal(frame.pos, mov)
            THEN [st EXCEPT !.stack = rest, !.panic = TRUE, !.illegal = TRUE]
            ELSE [st EXCEPT
                    !.out = insert_no_merge(
                                st.out, book_hash(frame.pos),
                                BookEntry(mov, Len(rest), member.weight,
                                          member.learn % U32_MOD)),
                    !.stack = rest \o
                        <<JsonFrame(frame.pos, frame.entries, frame.ind + 1),
                          JsonFrame(play(frame.pos, mov), member.children, 0)>>]

RECURSIVE read_json_loop(_)
read_json_loop(st) ==
    IF Len(st.stack) = 0 \/ st.panic THEN st
    ELSE read_json_loop(read_json_step(st))

\* read_json of a document with root position json.root and tree json.tree
read_json(json) ==
    read_json_loop([out |-> EmptyMap, out_root |-> json.root,
                    stack |-> <<JsonFrame(json.root, json.tree, 0)>>,
                    panic |-> FALSE, illegal |-> FALSE])

----------------------------------------------------------------------------
(* Inputs *)

BigWeight == U64_MOD \div 2

\* (position, move) keys of inserted entries: a legal move of the start
\* position, a move of a position no stored move leads to, and a move that
\* is illegal in its position (as a corrupt book file holds)
InsKeys == {<<1, e2e4>>, <<3, g1f3>>, <<1, e7e5>>}

InsEntries(mov) ==
    {BookEntry(mov, None, 1, 0), BookEntry(mov, 1, BigWeight, 1)}

\* 1.e4 e5 2.Nf3 and 1.Nf3 e5 2.e4 transpose; 1.Nf3 Nf6 2.Ng1 Ng8 returns
\* to the start position
Games ==
    { PgnGame(<<"e4", "e5">>, "white"),
      PgnGame(<<"e4", "e5", "Nf3">>, "draw"),
      PgnGame(<<"Nf3", "e5", "e4">>, "black"),
      PgnGame(<<"Nf3", "Nf6", "Ng1", "Ng8">>, "draw") }

PlyLimits == {1, 10}

\* books a book file was read into
ImportBooks ==
    { (book_hash(1) :> <<BookEntry(g1f3, 0, 1, 0), BookEntry(e2e4, 0, BigWeight, 0)>>)
        @@ (book_hash(2) :> <<BookEntry(c7c5, 1, 1, 2)>>),
      (book_hash(2) :> <<BookEntry(e7e5, 1, U16_MAX + 1, 0)>>)
        @@ (book_hash(3) :> <<BookEntry(g1f3, 2, 3, 0)>>) }

\* -min-weight 2, -max-weight 1, -depth 1, -white-only, -black-only
FilterArgs ==
    {<<"min-weight", 2>>, <<"max-weight", 1>>, <<"depth", 1>>,
     <<"white-only", 0>>, <<"black-only", 0>>}

KeepCounts == {0, 1, 2}

RootPositions == {2, 5}

----------------------------------------------------------------------------
(* Operations of the working book *)

Enabled == status = "ok" /\ steps < MaxSteps

\* an operation whose u64 arithmetic may overflow: a build with overflow
\* checks panics, a build without wraps
Arith(op, arg, m2, ovf) ==
    /\ Enabled
    /\ steps' = steps + 1
    /\ last' = [op |-> op, pre |-> map, arg |-> arg]
    /\ \E checked \in BOOLEAN :
          IF ovf /\ checked
          THEN map' = map /\ status' = "panic"
          ELSE map' = m2 /\ status' = "ok"

\* an operation that cannot fail
Pure(op, arg, m2) ==
    /\ Enabled
    /\ steps' = steps + 1
    /\ last' = [op |-> op, pre |-> map, arg |-> arg]
    /\ map' = m2
    /\ status' = "ok"

\* an operation built on the tree walk st; m2 is its result if the walk
\* returns
Walked(op, arg, st, m2) ==
    /\ Enabled
    /\ steps' = steps + 1
    /\ last' = [op |-> op, pre |-> map, arg |-> arg]
    /\ map' = IF Returned(st) THEN m2 ELSE map
    /\ status' = IF st.panic THEN "panic"
                 ELSE IF Returned(st) THEN "ok" ELSE "hang"

Insert ==
    \E k \in InsKeys : \E e \in InsEntries(k[2]) :
        /\ Arith("insert", [hash |-> book_hash(k[1]), entry |-> e],
                 insert(map, book_hash(k[1]), e),
                 insert_overflows(map, book_hash(k[1]), e))
        /\ UNCHANGED <<walk, root, book2, file, written>>

InsertNoMerge ==
    \E k \in InsKeys : \E e \in InsEntries(k[2]) :
        /\ Pure("insert_no_merge", [hash |-> book_hash(k[1]), entry |-> e],
                insert_no_merge(map, book_hash(k[1]), e))
        /\ UNCHANGED <<walk, root, book2, file, written>>

Merge ==
    \E other \in ImportBooks : \E order \in Orders(DOMAIN other) :
        /\ Arith("merge", [other |-> other],
                 merge(map, other, order), merge_overflows(map, other, order))
        /\ UNCHANGED <<walk, root, book2, file, written>>

AddGame ==
    \E game \in Games, frequency \in BOOLEAN, depth \in PlyLimits :
        LET st == add_game(map, game, frequency, depth)
        IN  /\ ~st.panic
            /\ Arith("add_game",
                     [game |-> game, frequency |-> frequency, depth |-> depth],
                     st.map, st.ovf)
            /\ UNCHANGED <<walk, root, book2, file, written>>

Filter ==
    \E a \in FilterArgs :
        /\ Pure("filter", Closure(a[1], a[2]),
                filter(map, Closure(a[1], a[2])))
        /\ UNCHANGED <<walk, root, book2, file, written>>

KeepBest ==
    \E best \in KeepCounts :
        /\ Pure("keep-best", Closure("keep-best", best),
                map_nodes(map, Closure("keep-best", best)))
        /\ UNCHANGED <<walk, root, book2, file, written>>

ClearLearning ==
    /\ Pure("clear-learning", <<>>,
            map_entries(map, Closure("clear-learning", 0)))
    /\ UNCHANGED <<walk, root, book2, file, written>>

Uniform ==
    /\ Pure("uniform", <<>>, map_entries(map, Closure("uniform", 0)))
    /\ UNCHANGED <<walk, root, book2, file, written>>

SetDepths ==
    /\ Walked("set_depths", <<>>, set_depths(map, root),
              set_depths(map, root).map)
    /\ UNCHANGED <<walk, root, book2, file, written>>

SetRoot ==
    \E p \in RootPositions :
        /\ Walked("set_root", [root |-> p], set_depths(map, p),
                  set_depths(map, p).map)
        /\ root' = p
        /\ UNCHANGED <<walk, book2, file, written>>

RemoveDisconnected ==
    /\ Walked("remove_disconnected", <<>>, set_depths(map, root),
              remove_disconnected(set_depths(map, root)))
    /\ UNCHANGED <<walk, root, book2, file, written>>

\* no traverse_tree call is in progress
NoWalk == [mode |-> "none", iter |-> 0, st |-> WalkInit(EmptyMap, StartPos)]

NoBook == [map |-> EmptyMap, root |-> StartPos, read |-> FALSE]

NotWritten == [valid |-> FALSE, map |-> EmptyMap]

Init ==
    /\ map = EmptyMap
    /\ root = StartPos
    /\ book2 = NoBook
    /\ file = <<>>
    /\ written = NotWritten
    /\ last = [op |-> "new", pre |-> EmptyMap, arg |-> <<>>]
    /\ status = "ok"
    /\ steps = 0
    /\ walk = NoWalk

Next ==
    \/ Insert
    \/ InsertNoMerge
    \/ Merge
    \/ AddGame
    \/ Filter
    \/ KeepBest
    \/ ClearLearning
    \/ Uniform
    \/ SetDepths
    \/ SetRoot
    \/ RemoveDisconnected

Spec == Init /\ [][Next]_vars

----------------------------------------------------------------------------
(* The binary book file: write, and a later run reading it back *)

\* write_book with a .bin output: the bytes reach the file as they are
\* written, also when the run then panics
Write ==
    /\ Enabled
    /\ steps' = steps + 1
    /\ last' = [op |-> "write", pre |-> map, arg |-> <<>>]
    /\ \E checked \in BOOLEAN :
          LET w == write(map, checked)
          IN  /\ file' = w.bytes
              /\ status' = IF w.panic THEN "panic" ELSE "ok"
              /\ written' = [valid |-> ~w.panic, map |-> map]
    /\ UNCHANGED <<walk, map, root, book2>>

\* BookMap::new() of a new run
NewBook ==
    /\ Enabled
    /\ steps' = steps + 1
    /\ last' = [op |-> "new", pre |-> map, arg |-> <<>>]
    /\ map' = EmptyMap
    /\ root' = StartPos
    /\ status' = "ok"
    /\ UNCHANGED <<walk, book2, file, written>>

\* merge_book_files with a .bin input
ExtendFromReader ==
    /\ Arith("extend_from_reader", [bytes |-> file],
             extend_from_reader(map, file), extend_overflows(map, file))
    /\ UNCHANGED <<walk, root, book2, file, written>>

\* numbers of trailing bytes a book file loses before it is read
CutLens == {1, 8, RecordLen - 1, RecordLen + 1}

\* the book file reaches the reader cut short
CutFile ==
    \E k \in CutLens :
        /\ Enabled
        /\ k <= Len(file)
        /\ steps' = steps + 1
        /\ last' = [op |-> "cut", pre |-> map, arg |-> [k |-> k]]
        /\ file' = SubSeq(file, 1, Len(file) - k)
        /\ written' = NotWritten
        /\ UNCHANGED <<walk, map, root, book2, status>>

\* the book file reaches the reader followed by a copy of itself, whole or
\* cut short
ConcatFile ==
    \E k \in {0} \cup CutLens :
        /\ Enabled
        /\ Len(file) > 0
        /\ k <= Len(file)
        /\ steps' = steps + 1
        /\ last' = [op |-> "concat", pre |-> map, arg |-> [k |-> k]]
        /\ file' = file \o SubSeq(file, 1, Len(file) - k)
        /\ written' = NotWritten
        /\ UNCHANGED <<walk, map, root, book2, status>>

\* the attributes (depth, weight, learn) of the entries of the books drawn
BinAttrs ==
    {<<None, w, 0>> : w \in {0, 1, U16_MAX, U16_MAX + 1, BigWeight, U64_MAX}}
    \cup {<<0, 1, 3>>, <<1, U16_MAX, U32_MOD - 1>>}

\* the entry lists of a node with the given moves: one entry, or two with
\* different moves
NodesOf(movs, attrs) ==
    {<<BookEntry(m, a[1], a[2], a[3])>> : m \in movs, a \in attrs}
    \cup {<<BookEntry(m[1], a[1], a[2], a[3]), BookEntry(m[2], b[1], b[2], b[3])>> :
            m \in {x \in movs \X movs : x[1] # x[2]}, a \in attrs, b \in attrs}

\* a book: an optional node of the start position and an optional node of
\* the position after 1.e4
BinBooks ==
    LET N1 == NodesOf({e2e4, g1f3}, BinAttrs)
        N2 == NodesOf({c7c5}, {<<None, 1, 2>>, <<0, BigWeight, 0>>})
    IN  {EmptyMap}
        \cup {(book_hash(1) :> a) : a \in N1}
        \cup {(book_hash(2) :> b) : b \in N2}
        \cup {(book_hash(1) :> a) @@ (book_hash(2) :> b) : a \in N1, b \in N2}

InitBin ==
    /\ map \in BinBooks
    /\ root = StartPos
    /\ book2 = NoBook
    /\ file = <<>>
    /\ written = NotWritten
    /\ last = [op |-> "new", pre |-> EmptyMap, arg |-> <<>>]
    /\ status = "ok"
    /\ steps = 0
    /\ walk = NoWalk

NextBin ==
    \/ Write
    \/ NewBook
    \/ ExtendFromReader
    \/ CutFile
    \/ ConcatFile

SpecBin == InitBin /\ [][NextBin]_vars

----------------------------------------------------------------------------
(* Importing a text tree: read_txt, then merge and set_depths *)

MaxLines == 2

E4 == <<"e", "4">>

E5 == <<"e", "5">>

C5 == <<"c", "5">>

NF3 == <<"N", "f", "3">>

\* the lines of the text trees read
TxtLines ==
    { E4 \o <<",", " ">> \o E5,                          \* e4, e5
      E4 \o <<",", " ">> \o C5 \o <<" ", "2">>,          \* e4, c5 2
      E4,                                                \* e4
      <<" ", " ", " ", " ">> \o E5,                      \*     e5
      <<"\t">> \o C5 \o <<" ", "2", " ", ";", "c">>,     \* <tab>c5 2 ;c
      <<"3", " ">> \o NF3 \o <<",", " ">> \o E5 \o <<" ", "1">>,  \* 3 Nf3, e5 1
      <<" ">> \o E5 \o <<",", "2", " ">> \o NF3 \o <<"/">> \o C5,
                                                         \*  e5,2 Nf3/c5
      <<";", "c">>,                                      \* ;c
      <<"2">> \o E4 \o <<"(">> \o E5 \o <<"/">> \o C5 \o <<")">>, \* 2e4(e5/c5)
      <<")">> \o E4 }                                    \* )e4

Texts == UNION {[1..n -> TxtLines] : n \in 1..MaxLines}

\* BookMap::read_txt of merge_book_files; a read that panics returns no book
ReadTxt ==
    \E text \in Texts, checked \in BOOLEAN :
        LET r == read_txt(text, checked)
        IN  /\ Enabled
            /\ book2 = NoBook
            /\ steps' = steps + 1
            /\ last' = [op |-> "read_txt", pre |-> map,
                        arg |-> [text |-> text, log |-> r.log,
                                 illegal |-> r.illegal]]
            /\ book2' = IF r.panic THEN NoBook
                        ELSE [map |-> r.out, root |-> r.out_root, read |-> TRUE]
            /\ status' = IF r.panic THEN "panic" ELSE "ok"
            /\ UNCHANGED <<walk, map, root, file, written>>

\* book.merge(book2) of merge_book_files: book2 is moved into the merge
MergeBook2 ==
    /\ book2 # NoBook
    /\ \E order \in Orders(DOMAIN book2.map) :
          Arith("merge", [other |-> book2.map],
                merge(map, book2.map, order),
                merge_overflows(map, book2.map, order))
    /\ book2' = NoBook
    /\ UNCHANGED <<walk, root, file, written>>

\* the JSON documents read: a tree with a two-entry node and learn values;
\* a tree from the position after 1.e4; a tree whose second ply does not
\* apply (1.e4 Nf3); a tree whose second root entry does not apply (e5)
JsonDocs ==
    { [root |-> StartPos,
       tree |-> <<JsonMember("e4", 2, 0,
                     <<JsonMember("e5", 1, 3, <<>>),
                       JsonMember("c5", 1, 0, <<>>)>>),
                  JsonMember("Nf3", 1, 1, <<>>)>>],
      [root |-> 2,
       tree |-> <<JsonMember("c5", 3, 0, <<>>)>>],
      [root |-> StartPos,
       tree |-> <<JsonMember("e4", 1, 0,
                     <<JsonMember("Nf3", 1, 0, <<>>)>>)>>],
      [root |-> StartPos,
       tree |-> <<JsonMember("Nf3", 1, 0, <<>>),
                  JsonMember("e5", 2, 0, <<>>)>>] }

\* BookMap::read_json of merge_book_files; a read that panics returns no
\* book
ReadJson ==
    \E json \in JsonDocs :
        LET r == read_json(json)
        IN  /\ Enabled
            /\ book2 = NoBook
            /\ steps' = steps + 1
            /\ last' = [op |-> "read_json", pre |-> map,
                        arg |-> [json |-> json, illegal |-> r.illegal]]
            /\ book2' = IF r.panic THEN NoBook
                        ELSE [map |-> r.out, root |-> r.out_root, read |-> TRUE]
            /\ status' = IF r.panic THEN "panic" ELSE "ok"
            /\ UNCHANGED <<walk, map, root, file, written>>

NextTxt ==
    \/ ReadTxt
    \/ MergeBook2
    \/ SetDepths

SpecTxt == Init /\ [][NextTxt]_vars

\* the two tree readers and the merge of what they return
NextRead ==
    \/ ReadTxt
    \/ ReadJson
    \/ MergeBook2

SpecRead == Init /\ [][NextRead]_vars

----------------------------------------------------------------------------
(* The tree walk and the tree exporters, one loop iteration at a time *)

\* entries.sort_unstable_by_key(|entry| Reverse(entry.weight)): the orders
\* an unstable sort may leave, entries of equal weight in any order
sort_unstable_by_key(v) ==
    {s \in {[i \in 1..Len(v) |-> v[f[i]]] : f \in Permutations(1..Len(v))} :
        \A i \in 1..(Len(s) - 1) : s[i].weight >= s[i + 1].weight}

\* the callers of traverse_tree: set_depths and the three tree exporters
WalkModes == {"set_depths", "write_txt", "write_blob", "write_json"}

\* the visitors of write_txt and write_blob start with
\* `if ind == 0 { entries.sort_unstable_by_key(..) }`
SortsNode(mode) == mode \in {"write_txt", "write_blob"}

\* the states one loop iteration of traverse_tree can lead to under the
\* visitor of `mode`
walk_step(st, mode) ==
    LET top == st.stack[Len(st.stack)]
        h   == book_hash(top.pos)
    IN  IF /\ SortsNode(mode)
           /\ Has(st.map, h)
           /\ top.ind = 0
           /\ top.ind < Len(st.map[h])
        THEN {traverse_step([st EXCEPT !.map = Put(st.map, h, s)], mode) :
                s \in sort_unstable_by_key(st.map[h])}
        ELSE {traverse_step(st, mode)}

\* the book a walk starts on: set_depths first resets every depth
walk_start(m, mode) ==
    IF mode = "set_depths" THEN map_entries(m, Closure("clear-depth", 0))
    ELSE m

\* `&entries[ind]` of a visitor call: the entry of the node with that move
EntryOf(m, h, mov) ==
    m[h][CHOOSE j \in 1..Len(m[h]) : m[h][j].mov = mov]

\* str::repeat
RECURSIVE repeat(_, _)
repeat(t, n) == IF n <= 0 THEN <<>> ELSE t \o repeat(t, n - 1)

\* San::from_move(pos, &mov) of the move a packed move denotes
MoveSan(mov) ==
    CASE mov = e2e4 -> "e4"
      [] mov = e7e5 -> "e5"
      [] mov = c7c5 -> "c5"
      [] mov = g1f3 -> "Nf3"
      [] mov = g8f6 -> "Nf6"
      [] mov = f3g1 -> "Ng1"
      [] mov = f6g8 -> "Ng8"

\* The output of write_json is a sequence of tokens: the braces and the
\* comma, RootTok(p) for `"rootFen":<fen of p>,"tree":`, KeyTok(san) for
\* `"<san>":` and FieldsTok(w, l) for `"weight":w,"learn":l,"children":`.
Tok(kind, san, a, b) == [kind |-> kind, san |-> san, a |-> a, b |-> b]

LBrace == Tok("{", "", 0, 0)

RBrace == Tok("}", "", 0, 0)

Comma == Tok(",", "", 0, 0)

RootTok(r) == Tok("rootFen", "", r, 0)

KeyTok(san) == Tok("key", san, 0, 0)

FieldsTok(weight, learn) == Tok("fields", "", weight, learn)

\* write!(w, "{{\"rootFen\":{:?},\"tree\":{{", fen(&self.root)) and
\* `let mut last_depth = -1`
write_json_begin(r) ==
    [w |-> <<LBrace, RootTok(r), LBrace>>, last_depth |-> -1]

\* the visitor of write_json
write_json_visit(js, depth, entry) ==
    LET close == IF depth < js.last_depth
                 THEN repeat(<<RBrace, RBrace>>, js.last_depth - depth + 1)
                 ELSE <<>>
        comma == IF depth <= js.last_depth THEN <<Comma>> ELSE <<>>
    IN  [w |-> js.w \o close \o comma
                 \o <<KeyTok(MoveSan(entry.mov)), LBrace,
                      FieldsTok(entry.weight, entry.learn), LBrace>>,
         last_depth |-> depth]

\* the visitor calls of a walk, in order
RECURSIVE write_json_visits(_, _, _)
write_json_visits(js, m, log) ==
    IF Len(log) = 0 THEN js
    ELSE write_json_visits(
            write_json_visit(js, Head(log).depth,
                             EntryOf(m, Head(log).hash, Head(log).mov)),
            m, Tail(log))

\* write!(w, "{}", "}}".repeat(last_depth as usize + 2)): -1 as usize is
\* usize::MAX, and `+ 2` then panics in a build with overflow checks and
\* wraps to 1 otherwise
write_json_end(js, checked) ==
    LET n == (js.last_depth % U64_MOD) + 2
    IN  IF n >= U64_MOD /\ checked THEN [w |-> js.w, panic |-> TRUE]
        ELSE [w |-> js.w \o repeat(<<RBrace, RBrace>>, n % U64_MOD),
              panic |-> FALSE]

\* The output of write_txt and write_blob is a sequence of characters.

\* Display of an unsigned integer
RECURSIVE to_string(_)
to_string(n) ==
    IF n < 10 THEN <<Digits[n + 1]>>
    ELSE to_string(n \div 10) \o <<Digits[(n % 10) + 1]>>

\* Display of a SAN token
SanChars(san) ==
    CASE san = "e4"  -> <<"e", "4">>
      [] san = "e5"  -> <<"e", "5">>
      [] san = "c5"  -> <<"c", "5">>
      [] san = "Nf3" -> <<"N", "f", "3">>
      [] san = "Nf6" -> <<"N", "f", "6">>
      [] san = "Ng1" -> <<"N", "g", "1">>
      [] san = "Ng8" -> <<"N", "g", "8">>

\* writeln!(w, "{}", fen(&self.root)) when the root is not the start
\* position; the FEN of position p is written as the characters F, E, N and
\* the number of p
write_root(r) ==
    IF book_hash(r) # START_HASH
    THEN <<"F", "E", "N">> \o to_string(r) \o <<"\n">>
    ELSE <<>>

\* the state of write_txt and write_blob before the walk
write_tree_begin(r) ==
    [w |-> write_root(r), last_weight |-> 0, last_depth |-> 0,
     depths |-> <<>>, panic |-> FALSE]

\* `while depth >= depths.len() { depths.push(0) }`
RECURSIVE PushDepths(_, _)
PushDepths(depths, depth) ==
    IF depth >= Len(depths) THEN PushDepths(Append(depths, 0), depth)
    ELSE depths

\* the weight, the move and the learn value of an entry as both writers
\* print them, the weight followed by `sep`
entry_text(ts, only_child, entry, sep) ==
    (IF \/ (entry.weight # 1 /\ ~only_child)
        \/ (only_child /\ entry.weight # ts.last_weight)
     THEN to_string(entry.weight) \o sep
     ELSE <<>>)
    \o SanChars(MoveSan(entry.mov))
    \o (IF entry.learn # 0 THEN <<" ">> \o to_string(entry.learn) ELSE <<>>)

\* the visitor of write_txt, after the sort
write_txt_visit(ts, depth, len, entry, ind) ==
    LET only_child == len = 1
        pushed     == PushDepths(ts.depths, depth)
        depths     == IF depth > 0
                      THEN [pushed EXCEPT ![depth + 1] =
                                pushed[depth] + (IF only_child THEN 0 ELSE 1)]
                      ELSE pushed
        lead       == IF only_child THEN <<",", " ">>
                      ELSE (IF depth < ts.last_depth THEN <<"\n">> ELSE <<>>)
                           \o <<"\n">>
                           \o repeat(<<" ", " ", " ", " ">>, depths[depth + 1])
    IN  [ts EXCEPT
            !.w = ts.w \o lead \o entry_text(ts, only_child, entry, <<" ">>),
            !.depths = depths,
            !.last_depth = IF only_child THEN ts.last_depth ELSE depth,
            !.last_weight = entry.weight]

\* the visitor of write_blob, after the sort; `depths[last_depth] -
\* depths[depth]` is a usize subtraction
write_blob_visit(ts, depth, len, entry, ind) ==
    LET only_child == len = 1
        pushed     == PushDepths(ts.depths, depth)
        depths     == IF depth > 0
                      THEN [pushed EXCEPT ![depth + 1] =
                                pushed[depth] + (IF only_child THEN 0 ELSE 1)]
                      ELSE pushed
        closes     == IF ~only_child /\ depth < ts.last_depth
                      THEN depths[ts.last_depth + 1] - depths[depth + 1]
                      ELSE 0
        lead       == IF only_child THEN <<",">>
                      ELSE repeat(<<")">>, closes)
                           \o (IF ind = 0 /\ depth = 0 THEN <<>>
                               ELSE IF ind = 0 THEN <<"(">>
                               ELSE IF depth >= ts.last_depth THEN <<"/">>
                               ELSE <<>>)
    IN  IF closes < 0 THEN [ts EXCEPT !.panic = TRUE]
        ELSE [ts EXCEPT
                !.w = ts.w \o lead \o entry_text(ts, only_child, entry, <<>>),
                !.depths = depths,
                !.last_depth = IF only_child THEN ts.last_depth ELSE depth,
                !.last_weight = entry.weight]

\* the visitor calls of a walk of write_txt or write_blob, in order
RECURSIVE write_tree_visits(_, _, _, _)
write_tree_visits(ts, mode, m, log) ==
    IF Len(log) = 0 \/ ts.panic THEN ts
    ELSE LET x     == Head(log)
             entry == EntryOf(m, x.hash, x.mov)
         IN  write_tree_visits(
                IF mode = "write_txt"
                THEN write_txt_visit(ts, x.depth, Len(m[x.hash]), entry, x.ind)
                ELSE write_blob_visit(ts, x.depth, Len(m[x.hash]), entry,
                                      x.ind),
                mode, m, Tail(log))

\* what an exporter has written when its walk returned
written_text(mode, m, r, log, checked) ==
    CASE mode = "write_json" ->
            write_json_end(write_json_visits(write_json_begin(r), m, log),
                           checked)
      [] mode \in {"write_txt", "write_blob"} ->
            LET ts == write_tree_visits(write_tree_begin(r), mode, m, log)
            IN  [w |-> ts.w, panic |-> ts.panic]
      [] OTHER -> [w |-> <<>>, panic |-> FALSE]

StartWalk ==
    \E mode \in WalkModes :
        /\ Enabled
        /\ walk = NoWalk
        /\ steps' = steps + 1
        /\ walk' = [mode |-> mode, iter |-> 0,
                    st |-> WalkInit(walk_start(map, mode), root)]
        /\ last' = [op |-> "start", pre |-> map, arg |-> [mode |-> mode]]
        /\ UNCHANGED <<map, root, book2, file, written, status>>

WalkStep ==
    /\ walk # NoWalk
    /\ status = "ok"
    /\ Len(walk.st.stack) > 0
    /\ walk.iter < MaxWalkSteps
    /\ \E st2 \in walk_step(walk.st, walk.mode) :
          /\ walk' = [walk EXCEPT !.iter = walk.iter + 1, !.st = st2]
          /\ status' = IF st2.panic THEN "panic" ELSE "ok"
    /\ UNCHANGED <<map, root, book2, file, written, last, steps>>

\* traverse_tree returns: the book is as the walk left it
EndWalk ==
    /\ walk # NoWalk
    /\ status = "ok"
    /\ Len(walk.st.stack) = 0
    /\ map' = walk.st.map
    /\ walk' = NoWalk
    /\ \E checked \in BOOLEAN :
          LET out == written_text(walk.mode, walk.st.map, root, walk.st.log,
                                  checked)
          IN  /\ last' = [op |-> walk.mode, pre |-> map,
                          arg |-> [log |-> walk.st.log, out |-> out.w]]
              /\ status' = IF out.panic THEN "panic" ELSE "ok"
    /\ UNCHANGED <<root, book2, file, written, steps>>

\* reader.lines(): the text split at its line feeds
RECURSIVE split_lines(_)
split_lines(text) ==
    IF Len(text) = 0 THEN <<>>
    ELSE IF \E k \in 1..Len(text) : text[k] = "\n"
    THEN LET k == Min({j \in 1..Len(text) : text[j] = "\n"})
         IN  <<SubSeq(text, 1, k - 1)>>
             \o split_lines(SubSeq(text, k + 1, Len(text)))
    ELSE <<text>>

\* BookMap::read_txt on what write_txt or write_blob has just written, for a
\* book rooted at the start position (the output then has no FEN line)
ReadWritten ==
    /\ walk = NoWalk
    /\ status = "ok"
    /\ last.op \in {"write_txt", "write_blob"}
    /\ root = StartPos
    /\ \E checked \in BOOLEAN :
          LET r == read_txt(split_lines(last.arg.out), checked)
          IN  /\ book2' = IF r.panic THEN NoBook
                          ELSE [map |-> r.out, root |-> r.out_root,
                                read |-> TRUE]
              /\ status' = IF r.panic THEN "panic" ELSE "ok"
              /\ last' = [op |-> "read_written", pre |-> map,
                          arg |-> [mode |-> last.op, text |-> last.arg.out,
                                   illegal |-> r.illegal]]
    /\ UNCHANGED <<walk, map, root, file, written, steps>>

\* a node of position pos
NodeAt(pos, entries) == book_hash(pos) :> entries

\* the books walked: WalkDeep reaches the position after 1.e4 by one move
\* and by five (1.Nf3 Nf6 2.e4 Ng8 3.Ng1); WalkWide has a transposition of
\* equal length, two entries of equal weight, a node no stored move leads to
\* and depths left from an earlier root; WalkCycle returns to the start
\* position; WalkIllegal stores a move that is illegal in its position
WalkDeep ==
    NodeAt(1, <<BookEntry(e2e4, None, 1, 0), BookEntry(g1f3, None, 2, 0)>>)
    @@ NodeAt(2, <<BookEntry(e7e5, None, 1, 1), BookEntry(c7c5, None, 3, 0)>>)
    @@ NodeAt(5, <<BookEntry(g8f6, None, 1, 0)>>)
    @@ NodeAt(6, <<BookEntry(e2e4, None, 1, 0)>>)
    @@ NodeAt(10, <<BookEntry(f6g8, None, 1, 0)>>)
    @@ NodeAt(11, <<BookEntry(f3g1, None, 1, 0)>>)

WalkWide ==
    NodeAt(1, <<BookEntry(e2e4, 3, 2, 0), BookEntry(g1f3, None, 2, 1)>>)
    @@ NodeAt(2, <<BookEntry(e7e5, None, 1, 0)>>)
    @@ NodeAt(3, <<BookEntry(g1f3, None, 1, 0)>>)
    @@ NodeAt(5, <<BookEntry(e7e5, None, 5, 0)>>)
    @@ NodeAt(8, <<BookEntry(e2e4, 0, 1, 0)>>)
    @@ NodeAt(7, <<BookEntry(f6g8, 2, 1, 0)>>)

WalkCycle ==
    NodeAt(1, <<BookEntry(g1f3, None, 1, 0)>>)
    @@ NodeAt(5, <<BookEntry(g8f6, None, 1, 0)>>)
    @@ NodeAt(6, <<BookEntry(f3g1, None, 1, 0)>>)
    @@ NodeAt(7, <<BookEntry(f6g8, None, 1, 0)>>)

WalkIllegal ==
    NodeAt(1, <<BookEntry(e2e4, None, 1, 0), BookEntry(e7e5, None, 2, 0)>>)
    @@ NodeAt(2, <<BookEntry(c7c5, None, 1, 0)>>)

\* trees: TreeBranch has nodes of two entries and of one, weights 0, 1 and
\* more and learn values; the root of TreeRootZero is a single entry of
\* weight 0 and that of TreeRootOne a single entry of weight 1
TreeBranch ==
    NodeAt(1, <<BookEntry(e2e4, None, 2, 0), BookEntry(g1f3, None, 1, 3)>>)
    @@ NodeAt(2, <<BookEntry(e7e5, None, 1, 0), BookEntry(c7c5, None, 0, 2)>>)
    @@ NodeAt(3, <<BookEntry(g1f3, None, 1, 0)>>)
    @@ NodeAt(5, <<BookEntry(g8f6, None, 3, 0)>>)
    @@ NodeAt(6, <<BookEntry(f3g1, None, 3, 1)>>)

TreeRootZero ==
    NodeAt(1, <<BookEntry(e2e4, None, 0, 0)>>)
    @@ NodeAt(2, <<BookEntry(c7c5, None, 1, 0), BookEntry(e7e5, None, 0, 0)>>)

TreeRootOne ==
    NodeAt(1, <<BookEntry(g1f3, None, 1, 1)>>)
    @@ NodeAt(5, <<BookEntry(e7e5, None, 2, 0)>>)
    @@ NodeAt(8, <<BookEntry(e2e4, None, 2, 0)>>)

WalkBooks ==
    {WalkDeep, WalkWide, WalkCycle, WalkIllegal, EmptyMap,
     TreeBranch, TreeRootZero, TreeRootOne}

\* the start position and the position after 1.Nf3
WalkRoots == {StartPos, 5}

InitWalk ==
    /\ map \in WalkBooks
    /\ root \in WalkRoots
    /\ book2 = NoBook
    /\ file = <<>>
    /\ written = NotWritten
    /\ last = [op |-> "new", pre |-> EmptyMap, arg |-> <<>>]
    /\ status = "ok"
    /\ steps = 0
    /\ walk = NoWalk

NextWalk ==
    \/ StartWalk
    \/ WalkStep
    \/ EndWalk
    \/ ReadWritten

SpecWalk == InitWalk /\ [][NextWalk]_vars

\* the walk is a loop of one thread: while its stack is not empty the next
\* iteration runs, and when the stack is empty the call returns
SpecWalkLive ==
    InitWalk /\ [][NextWalk]_vars /\ WF_vars(WalkStep) /\ WF_vars(EndWalk)

----------------------------------------------------------------------------
(* Vocabulary of the properties *)

\* the (hash, index) places of a map's entries
Places(m) == {<<h, i>> : h \in DOMAIN m, i \in 1..9} \cap
             UNION {{<<h, i>> : i \in 1..Len(m[h])} : h \in DOMAIN m}

\* the (hash, move) keys of a map
Keys(m) == {<<pl[1], m[pl[1]][pl[2]].mov>> : pl \in Places(m)}

\* the first entry stored under a key
EntryAt(m, key) == m[key[1]][FirstWithMove(m[key[1]], key[2])]

\* the (hash, move, weight, learn) tuples of a map
Tuples(m) ==
    {<<pl[1], m[pl[1]][pl[2]].mov, m[pl[1]][pl[2]].weight,
       m[pl[1]][pl[2]].learn>> : pl \in Places(m)}

\* no two entries of one node have the same move
UniqueMoves(m) ==
    \A h \in DOMAIN m : \A i, j \in 1..Len(m[h]) :
        m[h][i].mov = m[h][j].mov => i = j

\* the last operation was op and it returned
Did(op) == last.op = op /\ status = "ok"

\* the positions reachable from r by following moves stored in m
RECURSIVE ReachFrom(_, _)
ReachFrom(m, R) ==
    LET next == R \cup
            {play(pl[1], pl[2]) : pl \in
                {x \in R \X {e2e4, e7e5, c7c5, g1f3, g8f6, f3g1, f6g8} :
                    /\ Has(m, book_hash(x[1]))
                    /\ \E i \in 1..Len(m[book_hash(x[1])]) :
                          m[book_hash(x[1])][i].mov = x[2]
                    /\ Legal(x[1], x[2])}}
    IN  IF next = R THEN R ELSE ReachFrom(m, next)

ReachableHashes(m, r) == {book_hash(p) : p \in ReachFrom(m, {r})}

----------------------------------------------------------------------------
(* Properties *)

\* C10: insert in combine mode.  If the node of the hash already has an
\* entry with the same move, that entry's weight becomes the sum of the two
\* weights, its depth and learn stay those of the first-inserted entry and
\* the node's entry count is unchanged; if no entry has the move the new
\* entry is appended; if the node is absent it is created holding just the
\* new entry.  All other nodes are unchanged.
C10_InsertCombine ==
    Did("insert") =>
        LET pre == last.pre
            h   == last.arg.hash
            e   == last.arg.entry
        IN  /\ DOMAIN map = DOMAIN pre \cup {h}
            /\ \A x \in DOMAIN pre \ {h} : map[x] = pre[x]
            /\ IF ~Has(pre, h) THEN map[h] = <<e>>
               ELSE IF FirstWithMove(pre[h], e.mov) = 0
               THEN map[h] = Append(pre[h], e)
               ELSE /\ Len(map[h]) = Len(pre[h])
                    /\ \A j \in 1..Len(pre[h]) :
                          map[h][j] =
                             IF j = FirstWithMove(pre[h], e.mov)
                             THEN [pre[h][j] EXCEPT
                                     !.weight = pre[h][j].weight + e.weight]
                             ELSE pre[h][j]

\* C10, the case the code agrees with: the same statement whenever the sum
\* of the two weights fits in a u64.
C10_InsertCombineNoOverflow ==
    (Did("insert") /\ ~insert_overflows(last.pre, last.arg.hash, last.arg.entry))
        => C10_InsertCombine

\* C5: after filter(p) every entry still in the map satisfies p, every entry
\* that satisfied p before is still present with unchanged fields (and in
\* the same relative order), and no node of the map has an empty entry list.
C5_Filter ==
    Did("filter") =>
        LET pre == last.pre
            p   == last.arg
            Sat(h) == {i \in 1..Len(pre[h]) : call_pred(p, pre[h][i])}
        IN  /\ \A h \in DOMAIN map :
                  /\ Len(map[h]) > 0
                  /\ \A i \in 1..Len(map[h]) : call_pred(p, map[h][i])
            /\ DOMAIN map = {h \in DOMAIN pre : Sat(h) # {}}
            /\ \A h \in DOMAIN map :
                  /\ Len(map[h]) = Cardinality(Sat(h))
                  /\ \A i \in Sat(h) :
                        map[h][Cardinality({j \in Sat(h) : j <= i})] = pre[h][i]

\* a filter removed some entries and kept others
C5_Witness ==
    /\ Did("filter")
    /\ \E h \in DOMAIN map : Len(map[h]) < Len(last.pre[h])
    /\ DOMAIN map # DOMAIN last.pre

\* C7 as stated: for every N >= 0, after -keep-best N every node has at most
\* N entries, and for every removed entry there is a retained entry in the
\* same node whose weight is >= the removed entry's weight.
C7_KeepBestAnyN ==
    Did("keep-best") =>
        LET pre == last.pre
            n   == last.arg.n
        IN  /\ \A h \in DOMAIN map : Len(map[h]) <= n
            /\ \A h \in DOMAIN pre : \A i \in 1..Len(pre[h]) :
                  (~Has(map, h) \/ \A j \in 1..Len(map[h]) : map[h][j] # pre[h][i])
                  => /\ Has(map, h)
                     /\ \E j \in 1..Len(map[h]) :
                           map[h][j].weight >= pre[h][i].weight

\* C7 amended: the same for every N >= 1; with N = 0 every node is removed.
C7_KeepBest ==
    Did("keep-best") =>
        IF last.arg.n = 0 THEN map = EmptyMap ELSE C7_KeepBestAnyN

\* -keep-best N with N >= 1 removed an entry of a node
C7_Witness ==
    /\ Did("keep-best")
    /\ last.arg.n >= 1
    /\ \E h \in DOMAIN map : Len(map[h]) < Len(last.pre[h])

\* C4: merging book B into book A with merge(), the merge of imported book
\* files without -combine-entries, leaves A's entry unchanged for every
\* (hash, move) present in both and adds B's entry for every key absent
\* from A.
C4_MergeReplaceSkip ==
    Did("merge") =>
        LET A == last.pre
            B == last.arg.other
        IN  /\ Keys(map) = Keys(A) \cup Keys(B)
            /\ \A k \in Keys(A) : EntryAt(map, k) = EntryAt(A, k)
            /\ \A k \in Keys(B) \ Keys(A) : EntryAt(map, k) = EntryAt(B, k)

\* what merge() does at a key of both books: the weights are added
C4_MergeSums ==
    Did("merge") =>
        \A k \in Keys(last.pre) \cap Keys(last.arg.other) :
            EntryAt(map, k).weight =
                AddU64(EntryAt(last.pre, k).weight,
                       EntryAt(last.arg.other, k).weight)

\* C3: merging B into A and merging A into B in combine mode give the same
\* weight at every (hash, move); at a key of both the weight is
\* weightA + weightB, at a key of one it is that book's weight.
C3_MergeCommutes ==
    Did("merge") =>
        LET A == last.pre
            B == last.arg.other
        IN  \A order \in Orders(DOMAIN A) :
              LET BA == merge(B, A, order)
              IN  /\ Keys(map) = Keys(BA)
                  /\ \A k \in Keys(map) :
                        /\ EntryAt(map, k).weight = EntryAt(BA, k).weight
                        /\ EntryAt(map, k).weight =
                             (IF k \in Keys(A) THEN EntryAt(A, k).weight ELSE 0)
                             + (IF k \in Keys(B) THEN EntryAt(B, k).weight ELSE 0)

\* C3, the part the code agrees with: both merge orders give the same
\* weights, the sum modulo 2^64 at a key of both books.
C3_MergeCommutesMod ==
    Did("merge") =>
        LET A == last.pre
            B == last.arg.other
        IN  \A order \in Orders(DOMAIN A) :
              LET BA == merge(B, A, order)
              IN  /\ Keys(map) = Keys(BA)
                  /\ \A k \in Keys(map) :
                        /\ EntryAt(map, k).weight = EntryAt(BA, k).weight
                        /\ EntryAt(map, k).weight =
                             ((IF k \in Keys(A) THEN EntryAt(A, k).weight ELSE 0)
                              + (IF k \in Keys(B) THEN EntryAt(B, k).weight ELSE 0))
                             % U64_MOD

\* the places a fresh tree walk of m from r visits
FreshWalk(m, r) == traverse_tree(WalkInit(m, r), "walk", MaxWalkSteps)

Visited(w) == {<<w.log[i].hash, w.log[i].ind + 1>> : i \in 1..Len(w.log)}

\* C6: after remove_disconnected() a fresh tree walk from the current root
\* visits exactly the entries that remain in the map, no remaining entry has
\* depth = none, and the entries of nodes not reachable from root by stored
\* moves are all removed (those of reachable nodes all remain, with their
\* move, weight and learn).
C6_RemoveDisconnected ==
    Did("remove_disconnected") =>
        LET pre == last.pre
            w   == FreshWalk(map, root)
        IN  /\ Returned(w)
            /\ Visited(w) = Places(map)
            /\ \A pl \in Places(map) : map[pl[1]][pl[2]].depth # None
            /\ DOMAIN map = DOMAIN pre \cap ReachableHashes(pre, root)
            /\ \A h \in DOMAIN map :
                  /\ Len(map[h]) = Len(pre[h])
                  /\ \A i \in 1..Len(pre[h]) :
                        /\ map[h][i].mov = pre[h][i].mov
                        /\ map[h][i].weight = pre[h][i].weight
                        /\ map[h][i].learn = pre[h][i].learn

\* remove_disconnected removed a node and kept another
C6_Witness ==
    /\ Did("remove_disconnected")
    /\ map # EmptyMap
    /\ DOMAIN map # DOMAIN last.pre

\* the position before ply i of a game
RECURSIVE BoardBefore(_, _)
BoardBefore(game, i) ==
    IF i = 0 THEN StartPos
    ELSE play(BoardBefore(game, i - 1), SanMove(game.moves[i]))

\* the weight C8 states for ply i
C8_Weight(game, frequency, i) ==
    IF frequency THEN 1
    ELSE CASE game.outcome = "white" -> IF i % 2 = 0 THEN 2 ELSE 0
           [] game.outcome = "black" -> IF i % 2 = 1 THEN 2 ELSE 0
           [] OTHER -> 1

\* the map after one combine-mode insert for each of the plies i..n-1
RECURSIVE C8_Inserts(_, _, _, _, _)
C8_Inserts(m, game, frequency, i, n) ==
    IF i >= n THEN m
    ELSE C8_Inserts(
            insert(m, book_hash(BoardBefore(game, i)),
                   BookEntry(SanMove(game.moves[i + 1]), i,
                             C8_Weight(game, frequency, i), 0)),
            game, frequency, i + 1, n)

C8_Scenario(frequency) ==
    (book_hash(StartPos) :>
        <<BookEntry(e2e4, 0, IF frequency THEN 1 ELSE 2, 0)>>)
    @@ (book_hash(play(StartPos, e2e4)) :>
        <<BookEntry(e7e5, 1, IF frequency THEN 1 ELSE 0, 0)>>)

\* C8: add_game(game, frequency, max_ply) contributes, for each ply
\* i < min(len(game.moves), max_ply), one combine-mode insert at the hash of
\* the position before move i with depth i, learn 0 and weight 1 if
\* frequency, else 2 for the winner's moves, 0 for the loser's, 1 for a
\* draw.  The game 1.e4 e5 1-0 with max_ply 10 into an empty graph yields
\* exactly (start, e4, 2, depth 0) and (post-e4, e5, 0, depth 1), or both
\* weights 1 with frequency.
C8_AddGame ==
    Did("add_game") =>
        LET game == last.arg.game
            n    == Min({Len(game.moves), last.arg.depth})
        IN  /\ map = C8_Inserts(last.pre, game, last.arg.frequency, 0, n)
            /\ (/\ last.pre = EmptyMap
                /\ game = PgnGame(<<"e4", "e5">>, "white")
                /\ last.arg.depth = 10)
               => map = C8_Scenario(last.arg.frequency)

\* the game 1.e4 e5 1-0 was added to an empty graph, by outcome
C8_Witness ==
    /\ Did("add_game")
    /\ last.pre = EmptyMap
    /\ last.arg.game = PgnGame(<<"e4", "e5">>, "white")
    /\ last.arg.depth = 10
    /\ ~last.arg.frequency

\* a game was cut at max_ply and added to a graph that held its first move
C8_WitnessCut ==
    /\ Did("add_game")
    /\ last.arg.depth < Len(last.arg.game.moves)
    /\ last.pre # EmptyMap
    /\ last.pre # map

\* the records of a byte stream: [hash, mov, weight, learn] per 16 bytes
RECURSIVE RecordsOf(_)
RecordsOf(bytes) ==
    IF Len(bytes) < RecordLen THEN {}
    ELSE {[hash   |-> from_be_bytes(SubSeq(bytes, 1, 8)),
           mov    |-> from_be_bytes(SubSeq(bytes, 9, 10)),
           weight |-> from_be_bytes(SubSeq(bytes, 11, 12)),
           learn  |-> from_be_bytes(SubSeq(bytes, 13, 16))]}
         \cup RecordsOf(SubSeq(bytes, RecordLen + 1, Len(bytes)))

\* every weight of the book fits the 16-bit field
FitsField(m) == \A pl \in Places(m) : m[pl[1]][pl[2]].weight <= U16_MAX

\* C1: for every book G with unique moves per node and every weight
\* <= 65535 (u16::MAX), writing G with write and reading the bytes into an
\* empty graph with extend_from_reader yields exactly G's set of
\* (hash, move, weight, learn) tuples.
C1_BinaryRoundTrip ==
    (/\ Did("extend_from_reader")
     /\ last.pre = EmptyMap
     /\ written.valid
     /\ UniqueMoves(written.map)
     /\ FitsField(written.map))
        => Tuples(map) = Tuples(written.map)

\* a two-node book with a two-entry node was written and read back
C1_Witness ==
    /\ Did("extend_from_reader")
    /\ last.pre = EmptyMap
    /\ written.valid
    /\ FitsField(written.map)
    /\ Cardinality(DOMAIN written.map) = 2
    /\ \E h \in DOMAIN written.map : Len(written.map[h]) = 2
    /\ \E pl \in Places(written.map) :
          written.map[pl[1]][pl[2]].weight = U16_MAX
    /\ map # EmptyMap

\* C2: in the binary writer, for every node whose maximum weight exceeds
\* 65535 each entry's written 16-bit weight is floor(weight * 65535 /
\* max_weight), computed without truncation or wrap-around for every 64-bit
\* weight (the maximum-weight entry is written as 65535), and
\* a.weight <= b.weight implies written(a) <= written(b); a node whose
\* maximum weight is <= 65535 is written unscaled.
C2_Rescale ==
    Did("write") =>
        LET recs == RecordsOf(file)
            W(h, e) == IF max_weight(map[h]) > U16_MAX
                       THEN (e.weight * U16_MAX) \div max_weight(map[h])
                       ELSE e.weight
            Rec(h, e) == CHOOSE r \in recs : r.hash = h /\ r.mov = e.mov
        IN  /\ Len(file) = RecordLen * Cardinality(Places(map))
            /\ \A h \in DOMAIN map : \A i \in 1..Len(map[h]) :
                  /\ \E r \in recs : r.hash = h /\ r.mov = map[h][i].mov
                  /\ Rec(h, map[h][i]).weight = W(h, map[h][i])
                  /\ \A j \in 1..Len(map[h]) :
                        map[h][i].weight <= map[h][j].weight
                        => Rec(h, map[h][i]).weight <= Rec(h, map[h][j]).weight

\* C2, the case the code agrees with: the same statement for the books in
\* which weight * 65535 fits in a u64 for every entry of a rescaled node
C2_RescaleNoOverflow ==
    (Did("write") /\ ~write_overflows(map)) => C2_Rescale

\* the frames of a stack that popping down to indent k removes: the
\* longest run of frames at its top whose indent is >= k
PoppedCount(stack, k) ==
    Max({n \in 0..Len(stack) :
            \A j \in (Len(stack) - n + 1)..Len(stack) : stack[j].indent >= k})

\* C9: in the text reader the first entry of a line with indent k is
\* anchored by popping the (position, indent) stack while the top frame's
\* indent is >= k and restoring the position saved in the last popped frame;
\* later entries of the same comma chain are children of the preceding
\* entry.  So the lines 'e4, e5' / 'e4, c5 2' yield a root node with the
\* single entry e4 (weight 1) and a post-e4 node with exactly e5 (weight 1,
\* learn 0) and c5 (weight 1, learn 2); the repeated e4 adds nothing.
C9_ReadTxtAnchoring ==
    last.op = "read_txt" =>
        LET log == last.arg.log
        IN  /\ \A n \in 1..Len(log) :
                  LET x == log[n]
                      k == PoppedCount(x.stack, x.indent)
                  IN  /\ x.first =>
                            /\ x.pos = IF k = 0 THEN x.cursor
                                       ELSE x.stack[Len(x.stack) - k + 1].pos
                            /\ x.entry.depth = Len(x.stack) - k
                      /\ ~x.first =>
                            /\ n > 1
                            /\ x.pos = play(log[n - 1].pos, log[n - 1].entry.mov)
                            /\ x.entry.depth = Len(x.stack)
                      /\ n > 1 =>
                            /\ x.cursor = play(log[n - 1].pos, log[n - 1].entry.mov)
                            /\ Len(x.stack) = log[n - 1].entry.depth + 1
                            /\ x.stack[Len(x.stack)] =
                                 [pos |-> log[n - 1].pos,
                                  indent |-> log[n - 1].indent]
            /\ (status = "ok" /\ last.arg.text =
                    <<E4 \o <<",", " ">> \o E5,
                      E4 \o <<",", " ">> \o C5 \o <<" ", "2">> >>)
               => book2.map =
                    (book_hash(StartPos) :> <<BookEntry(e2e4, 0, 1, 0)>>)
                    @@ (book_hash(play(StartPos, e2e4)) :>
                            <<BookEntry(e7e5, 1, 1, 0), BookEntry(c7c5, 1, 1, 2)>>)

\* the two-line example was read
C9_Witness ==
    /\ Did("read_txt")
    /\ last.arg.text =
          <<E4 \o <<",", " ">> \o E5, E4 \o <<",", " ">> \o C5 \o <<" ", "2">> >>
    /\ Len(last.arg.log) = 4
    /\ last.arg.log[3].first /\ last.arg.log[3].pos = StartPos
    /\ Len(last.arg.log[3].stack) = 2

\* an indented line was read whose first entry popped no frame
C9_WitnessChild ==
    /\ Did("read_txt")
    /\ \E n \in 1..Len(last.arg.log) :
          /\ last.arg.log[n].first
          /\ last.arg.log[n].indent > 0
          /\ last.arg.log[n].pos = last.arg.log[n].cursor
          /\ last.arg.log[n].pos # StartPos

----------------------------------------------------------------------------
(* Replace-skip insertion *)

\* C11: insert_no_merge (replace-skip mode): when the node already holds an
\* entry with the same move the new entry is discarded and the whole graph
\* is unchanged (weights are not summed; the first occurrence's weight,
\* learn and depth stay); otherwise the entry is appended, and the node is
\* created when absent.
C11_InsertNoMerge ==
    Did("insert_no_merge") =>
        LET pre == last.pre
            h   == last.arg.hash
            e   == last.arg.entry
        IN  IF Has(pre, h) /\ \E i \in 1..Len(pre[h]) : pre[h][i].mov = e.mov
            THEN map = pre
            ELSE /\ DOMAIN map = DOMAIN pre \cup {h}
                 /\ \A x \in DOMAIN pre \ {h} : map[x] = pre[x]
                 /\ map[h] = IF Has(pre, h) THEN Append(pre[h], e) ELSE <<e>>

\* an entry was discarded whose weight, learn and depth differ from those of
\* the entry stored under the same move
C11_Witness ==
    /\ Did("insert_no_merge")
    /\ Has(last.pre, last.arg.hash)
    /\ \E i \in 1..Len(last.pre[last.arg.hash]) :
          LET old == last.pre[last.arg.hash][i]
          IN  /\ old.mov = last.arg.entry.mov
              /\ old.weight # last.arg.entry.weight
              /\ old.learn # last.arg.entry.learn
              /\ old.depth # last.arg.entry.depth

----------------------------------------------------------------------------
(* The binary reader on arbitrary streams *)

\* the complete 16-byte records of a stream, in order
RecordSeq(bytes) ==
    [i \in 1..(Len(bytes) \div RecordLen) |->
        LET at == RecordLen * (i - 1)
        IN  [hash   |-> from_be_bytes(SubSeq(bytes, at + 1, at + 8)),
             mov    |-> from_be_bytes(SubSeq(bytes, at + 9, at + 10)),
             weight |-> from_be_bytes(SubSeq(bytes, at + 11, at + 12)),
             learn  |-> from_be_bytes(SubSeq(bytes, at + 13, at + 16))]]

\* the sum of the weights of the first n records stored under a key
RECURSIVE RecordWeightSum(_, _, _)
RecordWeightSum(recs, key, n) ==
    IF n = 0 THEN 0
    ELSE RecordWeightSum(recs, key, n - 1)
         + (IF <<recs[n].hash, recs[n].mov>> = key THEN recs[n].weight ELSE 0)

\* C12: the binary reader consumes the stream in 16-byte records and inserts
\* each complete record in combine mode: records repeating a (hash, move)
\* have their weights summed (onto the weight already stored under the key,
\* whose learn and depth stay); when the stream length is not a multiple of
\* 16 the trailing fragment is dropped without error and every complete
\* record before it has been inserted.  Stated for the reads whose sums fit
\* in a u64.
C12_BinaryReader ==
    (/\ last.op = "extend_from_reader"
     /\ ~extend_overflows(last.pre, last.arg.bytes))
        =>
        LET pre  == last.pre
            recs == RecordSeq(last.arg.bytes)
            n    == Len(recs)
            RecKeys == {<<recs[i].hash, recs[i].mov>> : i \in 1..n}
            First(k) == recs[Min({i \in 1..n : <<recs[i].hash, recs[i].mov>> = k})]
        IN  /\ status = "ok"
            /\ Keys(map) = Keys(pre) \cup RecKeys
            /\ Cardinality(Places(map)) =
                   Cardinality(Places(pre)) + Cardinality(RecKeys \ Keys(pre))
            /\ \A k \in Keys(map) :
                  /\ EntryAt(map, k).weight =
                        (IF k \in Keys(pre) THEN EntryAt(pre, k).weight ELSE 0)
                        + RecordWeightSum(recs, k, n)
                  /\ EntryAt(map, k).learn =
                        IF k \in Keys(pre) THEN EntryAt(pre, k).learn
                        ELSE First(k).learn
                  /\ EntryAt(map, k).depth =
                        IF k \in Keys(pre) THEN EntryAt(pre, k).depth ELSE None

\* a stream with a trailing fragment and a repeated (hash, move) was read
C12_Witness ==
    /\ Did("extend_from_reader")
    /\ Len(last.arg.bytes) % RecordLen # 0
    /\ Len(last.arg.bytes) > 2 * RecordLen
    /\ LET recs == RecordSeq(last.arg.bytes)
       IN  \E i, j \in 1..Len(recs) :
              /\ i < j
              /\ recs[i].hash = recs[j].hash
              /\ recs[i].mov = recs[j].mov
              /\ recs[i].weight > 0

\* a stream shorter than one record was read: nothing was inserted
C12_WitnessFragment ==
    /\ Did("extend_from_reader")
    /\ Len(last.arg.bytes) \in 1..(RecordLen - 1)
    /\ map = last.pre

----------------------------------------------------------------------------
(* set_root *)

\* C13: set_root(p) sets root to p, discards every previous depth and
\* recomputes depth by a tree walk from p: afterwards an entry has
\* depth # none exactly when its node is reachable from p by stored moves,
\* and no entry's move, weight or learn and no node's membership has
\* changed.
C13_SetRoot ==
    Did("set_root") =>
        LET pre == last.pre
            p   == last.arg.root
        IN  /\ root = p
            /\ DOMAIN map = DOMAIN pre
            /\ \A h \in DOMAIN map :
                  /\ Len(map[h]) = Len(pre[h])
                  /\ \A i \in 1..Len(map[h]) :
                        /\ map[h][i].mov = pre[h][i].mov
                        /\ map[h][i].weight = pre[h][i].weight
                        /\ map[h][i].learn = pre[h][i].learn
                        /\ map[h][i].depth # None
                              <=> h \in ReachableHashes(pre, p)

\* set_root moved the root: an entry that had a depth lost it and an entry
\* of a node reachable from the new root has one
C13_Witness ==
    /\ Did("set_root")
    /\ \E pl \in Places(map) :
          /\ last.pre[pl[1]][pl[2]].depth # None
          /\ map[pl[1]][pl[2]].depth = None
    /\ \E pl \in Places(map) : map[pl[1]][pl[2]].depth # None

----------------------------------------------------------------------------
(* Illegal moves in the tree readers *)

\* C14: an illegal move is fatal in both tree readers: when read_txt or
\* read_json meets a notated move that does not apply to the position
\* reached by the path so far, the read aborts and no book graph is
\* returned; no partial result is merged into the working graph.
C14_IllegalMoveFatal ==
    (last.op \in {"read_txt", "read_json"} /\ last.arg.illegal) =>
        /\ status = "panic"
        /\ book2 = NoBook
        /\ map = last.pre

\* read_txt met an illegal move after it had read a legal one, and the
\* working book was not empty
C14_Witness ==
    /\ last.op = "read_txt"
    /\ last.arg.illegal
    /\ Len(last.arg.log) > 0
    /\ map # EmptyMap

\* read_json met an illegal move after it had read a legal one, and the
\* working book was not empty
C14_WitnessJson ==
    /\ last.op = "read_json"
    /\ last.arg.illegal
    /\ last.arg.json.tree[1].san = "e4"
    /\ map # EmptyMap

----------------------------------------------------------------------------
(* Node invariants *)

\* C15: after any sequence of the public graph operations (insert in either
\* mode, merge, add_game, filter, map_entries with the learn/weight
\* modifications, map_nodes with sort+truncate, set_depths, set_root,
\* remove_disconnected) every node in the map has a non-empty entry list
\* and no two entries of one node have the same move.
C15_NodeInvariant ==
    /\ \A h \in DOMAIN map : Len(map[h]) > 0
    /\ UniqueMoves(map)

\* a modification removed a node of a book that still has a node with two
\* entries
C15_Witness ==
    /\ last.op \in {"filter", "keep-best", "remove_disconnected"}
    /\ status = "ok"
    /\ DOMAIN map # DOMAIN last.pre
    /\ \E h \in DOMAIN map : Len(map[h]) >= 2

----------------------------------------------------------------------------
(* The tree walk, step by step *)

\* the stack holds the root and then, frame after frame, a position one
\* stored move after the position of the frame below, every frame but the
\* top one being a resume frame
OnePath(stack, m, r) ==
    /\ Len(stack) > 0 => stack[1].pos = r
    /\ \A j \in 1..(Len(stack) - 1) :
          /\ stack[j].ind >= 1
          /\ Has(m, book_hash(stack[j].pos))
          /\ \E i \in 1..Len(m[book_hash(stack[j].pos)]) :
                LET mov == m[book_hash(stack[j].pos)][i].mov
                IN  /\ Legal(stack[j].pos, mov)
                    /\ stack[j + 1].pos = play(stack[j].pos, mov)

Children(m, pos) ==
    IF ~Has(m, book_hash(pos)) THEN {}
    ELSE {play(pos, m[book_hash(pos)][i].mov) :
            i \in {j \in 1..Len(m[book_hash(pos)]) :
                        Legal(pos, m[book_hash(pos)][j].mov)}}

\* no position reachable from r is reachable from itself
Acyclic(m, r) ==
    \A p \in ReachFrom(m, {r}) : p \notin ReachFrom(m, Children(m, p))

\* the pre-order enumeration of the entries below pos, from the entry of
\* index i on: an entry, then the whole subtree of its move, then the next
\* entry of the same node
RECURSIVE PreOrder(_, _, _, _)
PreOrder(m, pos, d, i) ==
    IF ~Has(m, book_hash(pos)) THEN <<>>
    ELSE IF i >= Len(m[book_hash(pos)]) THEN <<>>
    ELSE LET mov == m[book_hash(pos)][i + 1].mov
         IN  <<[depth |-> d, hash |-> book_hash(pos), pos |-> pos,
                ind |-> i, mov |-> mov]>>
             \o PreOrder(m, play(pos, mov), d + 1, 0)
             \o PreOrder(m, pos, d, i + 1)

\* the number of distinct move paths from position `from` to position `to`
\* that start with an entry of index i or later (the empty path counts at 0)
RECURSIVE PathCount(_, _, _, _)
PathCount(m, from, to, i) ==
    IF from = to THEN (IF i = 0 THEN 1 ELSE 0)
    ELSE IF ~Has(m, book_hash(from)) THEN 0
    ELSE IF i >= Len(m[book_hash(from)]) THEN 0
    ELSE PathCount(m, play(from, m[book_hash(from)][i + 1].mov), to, 0)
         + PathCount(m, from, to, i + 1)

\* the indices of the visits of entry ind of the node of hash h
VisitsOf(log, h, ind) ==
    {k \in 1..Len(log) : log[k].hash = h /\ log[k].ind = ind}

\* the greatest element of a non-empty set of numbers
Latest(S) == CHOOSE k \in S : \A j \in S : j <= k

\* within every node the weights differ, so the descending order is unique
DistinctWeights(m) ==
    \A h \in DOMAIN m : \A i, j \in 1..Len(m[h]) :
        m[h][i].weight = m[h][j].weight => i = j

\* C17: on a graph whose part reachable from root is acyclic, the tree walk
\* visits every reachable entry once per distinct move path from root to its
\* node, in pre-order: the sequence of visits is an entry, then the whole
\* subtree of its move, then the next entry of the same node.  After
\* set_depths the depth stored on a visited entry is the depth of its last
\* visit in that order (not the least), and an entry never visited has none.
C17_PreOrderLastVisit ==
    (/\ last.op \in WalkModes
     /\ status = "ok"
     /\ Acyclic(last.pre, root)
     /\ SortsNode(last.op) => DistinctWeights(map)) =>
        LET log == last.arg.log
        IN  /\ log = PreOrder(map, root, 0, 0)
            /\ \A p \in ReachFrom(map, {root}) :
                  Has(map, book_hash(p)) =>
                      \A i \in 1..Len(map[book_hash(p)]) :
                          Cardinality(VisitsOf(log, book_hash(p), i - 1))
                              = PathCount(map, root, p, 0)
            /\ last.op = "set_depths" =>
                  \A h \in DOMAIN map : \A i \in 1..Len(map[h]) :
                      LET V == VisitsOf(log, h, i - 1)
                      IN  map[h][i].depth =
                            IF V = {} THEN None ELSE log[Latest(V)].depth

\* set_depths returned on a book where the position after 1.e4 is reached by
\* one move and by five: its entries were visited twice and keep depth 5
C17_Witness ==
    /\ Did("set_depths")
    /\ Acyclic(last.pre, root)
    /\ Has(map, book_hash(2))
    /\ Cardinality(VisitsOf(last.arg.log, book_hash(2), 0)) = 2
    /\ last.arg.log[Latest(VisitsOf(last.arg.log, book_hash(2), 0))].depth = 5
    /\ \E k \in VisitsOf(last.arg.log, book_hash(2), 0) :
          last.arg.log[k].depth = 1
    /\ map[book_hash(2)][1].depth = 5

\* the three exporters that walk the tree
TreeExporters == {"write_txt", "write_blob", "write_json"}

\* the entries of a node as a set of (entry, number of occurrences)
EntryCounts(v) ==
    {<<v[i], Cardinality({j \in 1..Len(v) : v[j] = v[i]})>> : i \in 1..Len(v)}

\* C18: an export pass does not mutate the stored graph: after write_txt,
\* write_blob or write_json returned, every node's entry list is the same
\* sequence, in the same order, as before, and no node is added or removed.
C18_ExportKeepsGraph ==
    (last.op \in TreeExporters /\ status = "ok") => map = last.pre

\* what the export passes do keep (C18): the nodes and, node by node, the
\* entries up to their order; write_json keeps the order too
C18_ExportKeepsEntries ==
    (last.op \in TreeExporters /\ status = "ok") =>
        /\ DOMAIN map = DOMAIN last.pre
        /\ \A h \in DOMAIN map : EntryCounts(map[h]) = EntryCounts(last.pre[h])
        /\ last.op = "write_json" => map = last.pre

\* write_txt returned and left the start node, stored as 1.e4 (weight 1)
\* then 1.Nf3 (weight 2), in the order 1.Nf3, 1.e4
C18_Reordered ==
    /\ Did("write_txt")
    /\ root = StartPos
    /\ last.pre[book_hash(StartPos)][1].mov = e2e4
    /\ map[book_hash(StartPos)][1].mov = g1f3

\* the weight of the entry of move mov in the node of hash h
WeightOf(m, h, mov) ==
    LET i == CHOOSE j \in 1..Len(m[h]) : m[h][j].mov = mov
    IN  m[h][i].weight

\* every entry an exporter emitted after the first of its node's list weighs
\* no more than the entry of the same list emitted just before it (each
\* visitor call emits its entry, so the log is the order of emission)
EmittedDescending(m, log) ==
    \A k \in 1..Len(log) :
        log[k].ind >= 1 =>
            LET prev == Latest({j \in 1..(k - 1) :
                                    /\ log[j].hash = log[k].hash
                                    /\ log[j].ind = log[k].ind - 1})
            IN  WeightOf(m, log[k].hash, log[prev].mov)
                    >= WeightOf(m, log[k].hash, log[k].mov)

\* C19: each of write_txt, write_blob and write_json emits the entries of
\* every visited node in descending weight order: of two entries of one node,
\* the one with strictly greater weight is emitted (with its subtree) before
\* the other, whatever the stored order of the node's list.
C19_EmitsDescending ==
    (last.op \in TreeExporters /\ status = "ok") =>
        EmittedDescending(map, last.arg.log)

\* what holds of C19: write_txt and write_blob emit in descending weight
\* order, and write_json emits in the stored order
C19_SortingExporters ==
    /\ (last.op \in {"write_txt", "write_blob"} /\ status = "ok") =>
            EmittedDescending(map, last.arg.log)
    /\ (last.op = "write_json" /\ status = "ok") =>
            last.arg.log = PreOrder(last.pre, root, 0, 0)

\* write_json returned after emitting 1.e4 (weight 1) before 1.Nf3
\* (weight 2)
C19_JsonStoredOrder ==
    /\ Did("write_json")
    /\ root = StartPos
    /\ last.arg.log[1].mov = e2e4
    /\ WeightOf(map, book_hash(StartPos), e2e4) = 1
    /\ \E k \in 2..Len(last.arg.log) :
          /\ last.arg.log[k].hash = book_hash(StartPos)
          /\ last.arg.log[k].mov = g1f3
          /\ WeightOf(map, book_hash(StartPos), g1f3) = 2

----------------------------------------------------------------------------
(* The entries of a text line and their default weight and learn *)

\* the entries of a line from character i on: the non-empty stretches
\* between the characters that end an entry (the end of the line ends one
\* too), each with `fresh`: since the entry before it the line started or a
\* '/', '(' or ')' was passed
RECURSIVE Segments(_, _, _, _)
Segments(line, i, start, fresh) ==
    IF i > Len(line) + 1 THEN <<>>
    ELSE IF i = Len(line) + 1 \/ line[i] \in EntryEnds
    THEN LET c == IF i = Len(line) + 1 THEN "\n" ELSE line[i]
         IN  (IF i > start
              THEN <<[text |-> SubSeq(line, start, i - 1), fresh |-> fresh]>>
              ELSE <<>>)
             \o Segments(line, i + 1, i + 1,
                         c # "," \/ (i = start /\ fresh))
    ELSE Segments(line, i + 1, start, fresh)

\* a line up to its comment, without the blanks around it
Uncommented(line) == trim(SubSeq(line, 1, FindSemicolon(line)))

\* the entries of the lines of a text, in order
RECURSIVE SegmentsOf(_)
SegmentsOf(lines) ==
    IF Len(lines) = 0 THEN <<>>
    ELSE Segments(Uncommented(Head(lines)), 1, 1, TRUE)
         \o SegmentsOf(Tail(lines))

\* the number of digits an entry starts with
LeadDigits(t) ==
    Max({k \in 0..Len(t) : \A j \in 1..k : is_digit(t[j])})

\* the number of digits an entry ends with, after a blank
TrailDigits(t) ==
    LET k == Max({n \in 0..Len(t) :
                    \A j \in (Len(t) - n + 1)..Len(t) : is_digit(t[j])})
    IN  IF k < Len(t) /\ t[Len(t) - k] \in {" ", "\t"} THEN k ELSE 0

\* the weight and learn an entry is to get, given the weight of the entry
\* before it
ExpectedWeight(seg, before) ==
    LET t == trim(seg.text)
    IN  IF LeadDigits(t) > 0 THEN parse_u64(SubSeq(t, 1, LeadDigits(t)))
        ELSE IF seg.fresh THEN 1
        ELSE before

ExpectedLearn(seg) ==
    LET t == trim(seg.text)
    IN  IF TrailDigits(t) > 0
        THEN parse_u64(SubSeq(t, Len(t) - TrailDigits(t) + 1, Len(t)))
                % U32_MOD
        ELSE 0

\* C20 as stated: in the text reader every entry without a leading integer
\* is inserted with weight 1 and every entry without a trailing integer with
\* learn 0, whatever the weight of the entries before it on the same line.
C20_DefaultWeightOne ==
    last.op = "read_txt" =>
        LET log  == last.arg.log
            segs == SegmentsOf(last.arg.text)
        IN  \A n \in 1..Len(log) :
                LET t == trim(segs[n].text)
                IN  /\ LeadDigits(t) = 0 => log[n].entry.weight = 1
                    /\ TrailDigits(t) = 0 => log[n].entry.learn = 0

\* C20, amended: in the text reader an entry with a leading integer gets it
\* as its weight; an entry without one gets weight 1 when it is the first of
\* its line or the first after a '/', '(' or ')', and otherwise (after a
\* comma) the weight of the entry before it.  An entry gets its trailing
\* integer as learn, and learn 0 without one.  A read that returns inserted
\* one entry per entry of the text.
C20_DefaultWeightCarried ==
    last.op = "read_txt" =>
        LET log  == last.arg.log
            segs == SegmentsOf(last.arg.text)
        IN  /\ Len(log) <= Len(segs)
            /\ status = "ok" => Len(log) = Len(segs)
            /\ \A n \in 1..Len(log) :
                  /\ log[n].entry.weight =
                        ExpectedWeight(segs[n],
                            IF n = 1 THEN 1 ELSE log[n - 1].entry.weight)
                  /\ log[n].entry.learn = ExpectedLearn(segs[n])

\* a line was read whose second entry has no leading integer, follows an
\* entry of weight 3 after a comma and was inserted with weight 3
C20_Witness ==
    /\ Did("read_txt")
    /\ \E n \in 2..Len(last.arg.log) :
          LET seg == SegmentsOf(last.arg.text)[n]
          IN  /\ ~seg.fresh
              /\ LeadDigits(trim(seg.text)) = 0
              /\ TrailDigits(trim(seg.text)) > 0
              /\ last.arg.log[n - 1].entry.weight = 3
              /\ last.arg.log[n].entry.weight = 3
              /\ last.arg.log[n].entry.learn = 1

\* a line was read with an entry that has no leading integer, follows an
\* entry of weight 2 after a '/' and was inserted with weight 1
C20_WitnessReset ==
    /\ Did("read_txt")
    /\ \E n \in 2..Len(last.arg.log) :
          LET seg == SegmentsOf(last.arg.text)[n]
          IN  /\ seg.fresh
              /\ LeadDigits(trim(seg.text)) = 0
              /\ last.arg.log[n - 1].entry.weight = 2
              /\ last.arg.log[n].entry.weight = 1
              /\ last.arg.log[n].entry.learn = 0

----------------------------------------------------------------------------
(* Termination of the tree walk *)

\* a position is held by two frames of the stack: the walk entered it again
\* below itself
Recurs(stack) ==
    \E i, j \in 1..Len(stack) : i < j /\ stack[i].pos = stack[j].pos

\* C23: the tree walk terminates on every finite book graph, also on one in
\* which a position recurs along a move path from root.  An iteration
\* depends on the top frame and the stored lists only, so a walk that returns
\* never holds a position in two frames of its stack: from the second entry
\* into the position the iterations made since the first repeat, each round
\* one level deeper, and the frame of the first entry is never popped.
C23_WalkTerminates ==
    walk # NoWalk => ~Recurs(walk.st.stack)

\* C23 as a property of behaviours: a walk that started returns or aborts
C23_WalkReturns ==
    (walk # NoWalk) ~> (walk = NoWalk \/ status = "panic")

\* what holds of C23: a walk returns only on a book whose part reachable from
\* root is acyclic, on such a book it never holds a position twice and is
\* within its iteration bound, and a walk at the bound holds a position
\* twice
C23_ReturnsIffAcyclic ==
    /\ (last.op \in WalkModes /\ status = "ok") => Acyclic(last.pre, root)
    /\ (walk # NoWalk /\ Acyclic(walk.st.map, root)) =>
            /\ ~Recurs(walk.st.stack)
            /\ walk.iter < MaxWalkSteps \/ Len(walk.st.stack) = 0
    /\ (walk # NoWalk /\ status = "ok" /\ walk.iter = MaxWalkSteps
            /\ Len(walk.st.stack) > 0) => Recurs(walk.st.stack)

\* the walk over the book of the game 1.Nf3 Nf6 2.Ng1 Ng8 is back at the
\* start position, four frames above the frame of the start position
C23_Reentered ==
    /\ walk # NoWalk
    /\ root = StartPos
    /\ Len(walk.st.stack) = 5
    /\ walk.st.stack[1] = Frame(StartPos, 1)
    /\ walk.st.stack[5] = Frame(StartPos, 0)

----------------------------------------------------------------------------
(* The nesting of the JSON output *)

\* the number of objects open after the first k tokens
BraceDepth(w, k) ==
    Cardinality({i \in 1..k : w[i] = LBrace})
        - Cardinality({i \in 1..k : w[i] = RBrace})

\* the indices of the key tokens, in order
RECURSIVE KeysFrom(_, _)
KeysFrom(w, k) ==
    IF k > Len(w) THEN <<>>
    ELSE (IF w[k].kind = "key" THEN <<k>> ELSE <<>>) \o KeysFrom(w, k + 1)

\* the brace that opened the object token k lies in
OpenerOf(w, k) ==
    Latest({i \in 1..(k - 1) :
                w[i] = LBrace /\ BraceDepth(w, i) = BraceDepth(w, k - 1)})

\* the output w is well nested for the visits of log: the n-th key is the
\* n-th visited move; at depth 0 it lies in the "tree" object and at depth
\* d > 0 in the children object of the key of the last earlier visit of depth
\* d - 1; a key follows the opening brace of its object or a comma that
\* follows the closing brace of its elder sibling; every brace is closed
WellNested(w, log) ==
    LET keys == KeysFrom(w, 1)
    IN  /\ Len(keys) = Len(log)
        /\ \A k \in 1..Len(w) : BraceDepth(w, k) >= 0
        /\ BraceDepth(w, Len(w)) = 0
        /\ \A k \in 2..Len(w) : w[k] = Comma => w[k - 1] = RBrace
        /\ \A n \in 1..Len(keys) :
              LET k == keys[n]
                  d == log[n].depth
              IN  /\ w[k].san = MoveSan(log[n].mov)
                  /\ w[k + 2] = FieldsTok(
                        EntryOf(last.pre, log[n].hash, log[n].mov).weight,
                        EntryOf(last.pre, log[n].hash, log[n].mov).learn)
                  /\ w[k - 1] \in {LBrace, Comma}
                  /\ BraceDepth(w, k - 1) = 2 + 2 * d
                  /\ IF d = 0 THEN OpenerOf(w, k) = 3
                     ELSE OpenerOf(w, k) - 3 =
                            keys[Latest({j \in 1..(n - 1) :
                                            log[j].depth = d - 1})]

\* C22: write_json emits well-nested output for every walk: an entry visited
\* at depth d is a key of the children object of the entry last emitted at
\* depth d - 1 (of "tree" when d = 0), the empty children object of an entry
\* without child node is closed before its next sibling is written, and at
\* the end as many braces are closed as were opened, also for an empty book.
C22_JsonWellNested ==
    last.op = "write_json" =>
        /\ status = "ok"
        /\ WellNested(last.arg.out, last.arg.log)

\* no visit has the depth of the visit before it
NoEqualDepths(log) == \A n \in 2..Len(log) : log[n].depth # log[n - 1].depth

\* what holds of C22: the output is well nested when the book has an entry
\* to visit and no two visits in a row have the same depth; with no entry to
\* visit, a build without overflow checks closes the two opening braces
C22_JsonNestedChains ==
    /\ (Did("write_json") /\ Len(last.arg.log) > 0
            /\ NoEqualDepths(last.arg.log))
          => WellNested(last.arg.out, last.arg.log)
    /\ (Did("write_json") /\ Len(last.arg.log) = 0)
          => last.arg.out = <<LBrace, RootTok(root), LBrace, RBrace, RBrace>>
    /\ (last.op = "write_json" /\ status = "panic") => Len(last.arg.log) = 0

\* write_json returned after writing the comma of a second entry right after
\* the opening brace of the first entry's children object
C22_SiblingInsideLeaf ==
    /\ Did("write_json")
    /\ \E k \in 2..Len(last.arg.out) :
          last.arg.out[k] = Comma /\ last.arg.out[k - 1] = LBrace

\* write_json of a book without entries ended in a panic
C22_EmptyBookPanics ==
    /\ last.op = "write_json"
    /\ status = "panic"
    /\ last.pre = EmptyMap

----------------------------------------------------------------------------
(* Reading back what write_txt and write_blob wrote *)

\* every stored move is legal and every node is reachable from r
FullyReachable(m, r) ==
    /\ \A p \in Positions :
          Has(m, book_hash(p)) =>
              \A i \in 1..Len(m[book_hash(p)]) :
                  Legal(p, m[book_hash(p)][i].mov)
    /\ DOMAIN m \subseteq ReachableHashes(m, r)

\* fully reachable, and every node is reached by one move path only
TreeShaped(m, r) ==
    /\ FullyReachable(m, r)
    /\ Acyclic(m, r)
    /\ \A p \in ReachFrom(m, {r}) : PathCount(m, r, p, 0) = 1

\* C21: the reader understands the blob form, bracket depth acting as
\* indentation within the line: an entry after '(' is a child of the entry
\* before it, an entry after '/' a sibling, and after ')' the position is
\* back at the enclosing level.  So reading what write_blob wrote for a graph
\* fully reachable from root returns, with the (hash, move, weight, learn)
\* tuples of the graph.
C21_BlobRoundTrip ==
    (/\ last.op = "read_written"
     /\ last.arg.mode = "write_blob"
     /\ FullyReachable(last.pre, root)) =>
        /\ status = "ok"
        /\ Tuples(book2.map) = Tuples(last.pre)

\* what holds of C21: a blob without '(' (a book in which every node has one
\* entry, or only the root node has more) is read back with its tuples, and
\* the read of a blob with a '(' in it does not return in the books read
C21_BlobChains ==
    (/\ last.op = "read_written"
     /\ last.arg.mode = "write_blob"
     /\ FullyReachable(last.pre, root)) =>
        IF \E k \in 1..Len(last.arg.text) : last.arg.text[k] = "("
        THEN status = "panic" /\ last.arg.illegal
        ELSE status = "ok" /\ Tuples(book2.map) = Tuples(last.pre)

\* the blob 2e4(e5,Nf3/0c5 2)Nf3 3,3Nf6,Ng1 1 was read: the read stopped at
\* e5, taken as a move of the start position
C21_ChildReadAtRoot ==
    /\ last.op = "read_written"
    /\ last.arg.mode = "write_blob"
    /\ last.pre = TreeBranch
    /\ SubSeq(last.arg.text, 1, 6) = <<"2", "e", "4", "(", "e", "5">>
    /\ status = "panic"
    /\ last.arg.illegal

\* a blob of one chain of moves was read back
C21_ChainReadBack ==
    /\ Did("read_written")
    /\ last.arg.mode = "write_blob"
    /\ last.pre = TreeRootOne
    /\ Tuples(book2.map) = Tuples(TreeRootOne)

\* C24: for every tree-shaped book whose entries are all reachable from
\* root, reading what write_txt wrote returns a book with the same root and
\* the same (hash, move, weight, learn) tuples, for all weights including 0
\* and 1 and for a root node with a single entry.
C24_TxtRoundTrip ==
    (/\ last.op = "read_written"
     /\ last.arg.mode = "write_txt"
     /\ TreeShaped(last.pre, root)) =>
        /\ status = "ok"
        /\ book2.root = root
        /\ Tuples(book2.map) = Tuples(last.pre)

\* the root node is a single entry of weight 0
RootSingleZero(m, r) ==
    /\ Has(m, book_hash(r))
    /\ Len(m[book_hash(r)]) = 1
    /\ m[book_hash(r)][1].weight = 0

\* what holds of C24: for every book fully reachable from the start
\* position, tree-shaped or not, the text is read back with the same root
\* and tuples, except that a root node of a single entry of weight 0 is read
\* back with weight 1
C24_TxtRoundTripButRootZero ==
    (/\ last.op = "read_written"
     /\ last.arg.mode = "write_txt"
     /\ FullyReachable(last.pre, root)) =>
        /\ status = "ok"
        /\ book2.root = root
        /\ Tuples(book2.map) =
              Tuples(IF RootSingleZero(last.pre, root)
                     THEN [last.pre EXCEPT ![book_hash(root)][1].weight = 1]
                     ELSE last.pre)

\* the text of a book whose root node is the single entry 1.e4 of weight 0
\* was read back with 1.e4 of weight 1
C24_RootZeroReadAsOne ==
    /\ Did("read_written")
    /\ last.arg.mode = "write_txt"
    /\ last.pre = TreeRootZero
    /\ TreeShaped(last.pre, root)
    /\ Tuples(book2.map) =
          Tuples([TreeRootZero EXCEPT ![book_hash(StartPos)][1].weight = 1])

\* the text of a tree with weights 0, 1, 2 and 3, nodes of one and of two
\* entries and learn values was read back with its tuples
C24_BranchReadBack ==
    /\ Did("read_written")
    /\ last.arg.mode = "write_txt"
    /\ last.pre = TreeBranch
    /\ Tuples(book2.map) = Tuples(TreeBranch)

====
